---- MODULE Spec2Model ----
(***************************************************************************)
(* Calendar connection manager of timebloc (src/src/lib/calendar-service.ts)*)
(* as a state machine.  Every async method is cut at its awaits: one action *)
(* per synchronous segment, because JavaScript runs each segment to its     *)
(* next await without interleaving.                                         *)
(***************************************************************************)
EXTENDS Integers, Sequences, FiniteSets, TLC

(* ---------------------------- bounds ----------------------------------- *)
MaxInits == 2        \* initialize() calls started in one run
MaxConnects == 1     \* connectProvider() calls started in one run
MaxTokens == 1       \* processAuthToken() calls started in one run
MaxRemoves == 1      \* removeConnection() calls the page starts in one run
MaxDisconnects == 2  \* disconnectCalendar() calls of the page in one run
MaxAggs == 1         \* getAllCalendarEvents() calls started in one run
MaxReloads == 1      \* page reloads after a redirect sign-in in one run
MaxLists == 1        \* getConnections() calls whose result a caller keeps
MaxWrites == 2       \* changes a caller makes to the array it was given
MaxClock == 1        \* clock advances in one run
MaxSyncs == 2        \* syncCalendars() calls of the page in flight at once
MaxNavs == 2         \* changes of the selected date in one run
MaxItems == 1        \* canvas items the user creates in one run
MaxKeys == 3         \* keystrokes in the priority fields in one run
NumPriorities == 2   \* priority fields of the page that are modelled

(* ------------------------ program constants ---------------------------- *)
ExpiryMs == 3600000  \* 3600 * 1000, lifetime given to every new token
ClockStep == ExpiryMs \div 2  \* granularity of Date.now() in the model
PriorityLimit == 500 \* longest priority text validatePriority accepts

NULL == "<null>"
UNDEFINED == "<undefined>"
THROWS == "<throws>"

SupportedProviders == {"google", "microsoft"}
ProviderIds == SupportedProviders \cup {"other"}
Uids == {"u1", "u2"}
InitIds == {"auto", "page"}

VARIABLES
  connections,     \* CalendarService.connections
  isInitialized,   \* CalendarService.isInitialized
  store,           \* the credential store behind invoke()
  now,             \* Date.now()
  tauri,           \* '__TAURI__' in window
  redirectPending, \* outcome a getRedirectResult(auth) call reports
  init,            \* the initialize() calls, one per caller
  cp,              \* the connectProvider() call
  tok,             \* the processAuthToken() call
  rem,             \* the removeConnection() call made by the page
  removals,        \* ids whose remove_calendar_connection is in flight
  agg,             \* the getAllCalendarEvents() call
  ops,             \* API calls started so far
  page,            \* React state of the page around connect and token paste
  listed,          \* the array a caller got from getConnections()
  paste,           \* the token text on its way from the auth page to the dialog
  home,            \* React state of the page around the selected day
  hist             \* history of the run, read only by the properties

vars == <<connections, isInitialized, store, now, tauri, redirectPending,
          init, cp, tok, rem, removals, agg, ops, page, listed, paste, home,
          hist>>

(* ------------------------- the connections Map ------------------------- *)
(* this.connections is a Map keyed by id.  It is modelled as the sequence  *)
(* of its entries in insertion order, which is the order values() yields.  *)
NoConn == [id |-> << >>]

MapIds(m) == {m[i].id : i \in DOMAIN m}

MapHas(m, id) == \E i \in DOMAIN m : m[i].id = id

MapIndex(m, id) == CHOOSE i \in DOMAIN m : m[i].id = id

MapGet(m, id) == m[MapIndex(m, id)]

\* an array push in place of Map.prototype.set
MapSet_push(m, c) == Append(m, c)

\* Map.prototype.set: an existing key keeps its position, a new key is appended
MapSet(m, c) ==
  IF MapHas(m, c.id) THEN [m EXCEPT ![MapIndex(m, c.id)] = c] ELSE Append(m, c)

\* Map.prototype.delete
MapDelete(m, id) == SelectSeq(m, LAMBDA c : c.id # id)

\* getConnections(): Array.from(this.connections.values())
getConnections(m) == m

\* an iterator that is a plain index into the entries
CursorAfterDelete_index(m, cursor, id) == cursor

(* A live values() iterator is the number of entries it has passed.  An    *)
(* entry deleted behind the iterator moves the iterator back with it, so   *)
(* the entries after the deleted one are still visited.                    *)
CursorAfterDelete(m, cursor, id) ==
  IF MapHas(m, id) /\ MapIndex(m, id) <= cursor THEN cursor - 1 ELSE cursor

(* getConnections() builds a new array of the Map's own connection objects. *)
(* An element of the array a caller holds is its value val and whether it  *)
(* still is the object the Map holds under key.                            *)
Listed(m) == [k \in DOMAIN m |-> [key |-> m[k].id, aliased |-> TRUE, val |-> m[k]]]

\* the objects under the keys ids are deleted from the Map or replaced in it
Unalias(l, ids) ==
  [k \in DOMAIN l |-> IF l[k].key \in ids THEN [l[k] EXCEPT !.aliased = FALSE]
                                            ELSE l[k]]

(* ------------------------- connection records -------------------------- *)
ConnId(providerId, uid) == <<providerId, "-", uid>>

NewConnection(providerId, uid, email, accessToken, refreshTok, t) ==
  [id |-> ConnId(providerId, uid),
   provider |-> providerId,
   email |-> email,
   accessToken |-> accessToken,
   refreshToken |-> refreshTok,
   expiresAt |-> t + ExpiryMs,
   connectedAt |-> t]

(* --------------------------- credential store -------------------------- *)
(* The store is the Tauri backend, reached through invoke().  It keeps one *)
(* record per id: list, upsert, remove.                                    *)
ToRecord(c) ==
  [id |-> c.id, provider |-> c.provider, account_name |-> c.email,
   access_token |-> c.accessToken,
   refresh_token |-> IF c.refreshToken = UNDEFINED THEN NULL ELSE c.refreshToken,
   expires_at |-> c.expiresAt, connected_at |-> c.connectedAt]

FromRecord(r, t) ==
  [id |-> r.id, provider |-> r.provider, email |-> r.account_name,
   accessToken |-> r.access_token,
   refreshToken |-> IF r.refresh_token = NULL THEN UNDEFINED ELSE r.refresh_token,
   expiresAt |-> IF r.expires_at = 0 THEN t + ExpiryMs ELSE r.expires_at,
   connectedAt |-> IF r.connected_at = 0 THEN t ELSE r.connected_at]

StoreIds(s) == {s[i].id : i \in DOMAIN s}

StoreUpsert(s, r) ==
  IF \E i \in DOMAIN s : s[i].id = r.id
  THEN [s EXCEPT ![CHOOSE i \in DOMAIN s : s[i].id = r.id] = r]
  ELSE Append(s, r)

StoreRemove(s, id) == SelectSeq(s, LAMBDA r : r.id # id)

StoreList(s) == s

\* saveConnectionToBackend reads connection.accessToken.length before it
\* calls invoke: a TypeError when there is no access token
SaveThrows(c) == c.accessToken = UNDEFINED

(* ------------------------ interactive sign-in --------------------------- *)
(* A UserCredential as far as the service reads it: result.user (uid,      *)
(* email, providerData), the OAuth access token credentialFromResult finds *)
(* and what user.getIdToken() answers.                                     *)
Users ==
  {[uid |-> "u1", email |-> "a@x", providerData |-> <<"google.com">>],
   [uid |-> "u2", email |-> NULL, providerData |-> <<"microsoft.com", "google.com">>],
   [uid |-> "u3", email |-> "c@x", providerData |-> <<"oidc.google">>],
   [uid |-> "u4", email |-> "d@x", providerData |-> << >>]}

EmailOf(uid) == (CHOOSE u \in Users : u.uid = uid).email

NoRes ==
  [kind |-> "none", hasUser |-> FALSE, uid |-> NULL, email |-> NULL,
   providerData |-> << >>, credToken |-> "", idToken |-> ""]

ErrRes == [NoRes EXCEPT !.kind = "error"]

UserCredentials ==
  {[kind |-> "cred", hasUser |-> TRUE, uid |-> u.uid, email |-> u.email,
    providerData |-> u.providerData, credToken |-> ct, idToken |-> it] :
      u \in Users, ct \in {"", "at"}, it \in {"idt", "", THROWS}}
  \cup {[NoRes EXCEPT !.kind = "cred"]}

\* String.prototype.includes on the provider ids of the model
Includes(s, sub) ==
  \/ sub = "google" /\ s \in {"google.com", "oidc.google"}
  \/ sub = "microsoft" /\ s \in {"microsoft.com"}

RECURSIVE FirstKnownProvider(_)
FirstKnownProvider(pd) ==
  IF pd = << >> THEN THROWS
  ELSE IF Head(pd) = "google.com" THEN "google"
  ELSE IF Head(pd) = "microsoft.com" THEN "microsoft"
  ELSE FirstKnownProvider(Tail(pd))

getProviderIdFromUser(user) ==
  IF FirstKnownProvider(user.providerData) # THROWS
  THEN FirstKnownProvider(user.providerData)
  ELSE IF Len(user.providerData) > 0 /\ Includes(user.providerData[1], "google")
  THEN "google"
  ELSE IF Len(user.providerData) > 0 /\ Includes(user.providerData[1], "microsoft")
  THEN "microsoft"
  ELSE THROWS

\* user.email || ''
EmailOrEmpty(e) == IF e = NULL THEN "" ELSE e

(* processAuthResult up to its first await.  k = "throw": it raised err;   *)
(* k = "idtoken": it awaits user.getIdToken(); k = "save": the connection  *)
(* conn has been built and is to be set and saved.                         *)
ParOut(k, err, conn) == [k |-> k, err |-> err, conn |-> conn]

processAuthResult(result, t) ==
  IF result.kind # "cred" \/ ~result.hasUser
  THEN ParOut("throw", "Authentication failed - no result received", NoConn)
  ELSE IF getProviderIdFromUser(result) = THROWS
  THEN ParOut("throw", "Could not determine provider from user data", NoConn)
  ELSE IF result.credToken = ""
  THEN ParOut("idtoken", "", NoConn)
  ELSE ParOut("save", "",
         NewConnection(getProviderIdFromUser(result), result.uid,
                       EmailOrEmpty(result.email), result.credToken, UNDEFINED, t))

\* processAuthResult without its check of !accessToken
processAuthResultIdToken_unchecked(result, idToken, t) ==
  ParOut("save", "",
         NewConnection(getProviderIdFromUser(result), result.uid,
                       EmailOrEmpty(result.email),
                       IF idToken = THROWS THEN "" ELSE idToken, UNDEFINED, t))

\* processAuthResult after user.getIdToken() has settled with idToken
processAuthResultIdToken(result, idToken, t) ==
  IF idToken \in {"", THROWS}
  THEN ParOut("throw", "Failed to get access token from authentication result", NoConn)
  ELSE ParOut("save", "",
         NewConnection(getProviderIdFromUser(result), result.uid,
                       EmailOrEmpty(result.email), idToken, UNDEFINED, t))

(* ------------------------------ initial state -------------------------- *)
\* an Error as its readers see it: error.code, error.message, and the
\* provider id interpolated into the message
Err(code, msg, arg) == [code |-> code, msg |-> msg, arg |-> arg]

NoErr == Err("", "", "")

InitCall == [pc |-> "idle", res |-> NoRes, conn |-> NoConn, snap |-> << >>,
             fin |-> << >>, early |-> FALSE, out |-> "none", caught |-> {}]

CpCall == [pc |-> "idle", providerId |-> NULL, res |-> NoRes, conn |-> NoConn,
           out |-> "none", err |-> NoErr, ret |-> NoConn]

TokCall == [pc |-> "idle", providerId |-> NULL, kind |-> "none", conn |-> NoConn,
            out |-> "none", err |-> NoErr, ret |-> NoConn]

RemCall == [pc |-> "idle", id |-> NULL, had |-> FALSE, invoked |-> "none",
            out |-> "none"]

AggCall == [pc |-> "idle", cursor |-> 0, cur |-> NoConn, allEvents |-> << >>,
            requests |-> 0, thrown |-> {}, out |-> "none", ret |-> << >>]

\* the dates the user can select
Dates == {"d1", "d2"}

\* the page after its first render: today selected, nothing loaded
HomeState ==
  [currentDate |-> "d1", calendarConnections |-> {}, loaded |-> FALSE,
   interval |-> FALSE, syncs |-> << >>, calendarEvents |-> "none",
   priorities |-> [index \in 1..NumPriorities |-> << >>],
   priorityTimers |-> [index \in 1..NumPriorities |->
                         [set |-> FALSE, date |-> "none", priorities |-> << >>]],
   localStorage |-> [d \in Dates |-> "none"],
   loads |-> <<[date |-> "d1", pc |-> "blocks"]>>, timeBlocks |-> "none",
   canvasItems |-> {}, hasEverHadContent |-> FALSE,
   canvasTimer |-> [set |-> TRUE, date |-> "d1", items |-> {}, had |-> FALSE]]

\* no token has been issued by the auth page
NoPaste == [stage |-> "none", payload |-> << >>, token |-> << >>]

\* the page before any connect: no provider pending, no dialog, no alert
PageState == [pendingProvider |-> "", showTokenInput |-> FALSE,
              submitting |-> FALSE, prompt |-> "none"]

\* connections persisted by an earlier session, at time ClockStep: their
\* tokens have expired when this session starts
Saved(providerId, uid) ==
  ToRecord(NewConnection(providerId, uid, EmailOrEmpty(EmailOf(uid)), "at",
                         UNDEFINED, ClockStep))

\* a record that was stored with a refresh token
WithRefreshToken(r) == [r EXCEPT !.refresh_token = "rt"]

InitialStores ==
  {<< >>, <<Saved("google", "u1")>>,
   <<Saved("google", "u1"), WithRefreshToken(Saved("microsoft", "u2"))>>}

\* what a redirect sign-in of the previous page load may have left behind
RedirectOutcomes ==
  {NoRes} \cup {r \in UserCredentials :
                  /\ r.uid = "u3"
                  /\ <<r.credToken, r.idToken>> \in {<<"at", "idt">>, <<"", "idt">>, <<"", "">>}}

Hist0(s) ==
  [assigned |-> {<<s[i].provider, s[i].id[3], s[i].id>> : i \in DOMAIN s},
   redirectChecks |-> 0, finalized |-> 0, storeLoads |-> 0,
   everLoaded |-> FALSE, log |-> << >>, lastAuth |-> <<NULL, NULL>>,
   keys |-> 0, typed |-> [index \in 1..NumPriorities |-> << >>],
   afterEdit |-> [index \in 1..NumPriorities |-> << >>],
   edits |-> 0, cancelled |-> 0, saves |-> 0,
   navs |-> 0, items |-> 0, canvasSaves |-> {}, loadFailed |-> FALSE,
   prioritiesOf |-> "none",
   cpBefore |-> [alone |-> FALSE, connections |-> << >>, store |-> << >>,
                 ops |-> << >>]]

Init ==
  /\ connections = << >>
  /\ isInitialized = FALSE
  /\ store \in InitialStores
  /\ now = 4 * ClockStep
  /\ tauri \in BOOLEAN
  /\ redirectPending \in RedirectOutcomes
  /\ init = [i \in InitIds |-> InitCall]
  /\ cp = CpCall
  /\ tok = TokCall
  /\ rem = RemCall
  /\ removals = {}
  /\ agg = AggCall
  /\ ops = [init |-> 0, cp |-> 0, tok |-> 0, rem |-> 0, agg |-> 0,
            list |-> 0, write |-> 0, reload |-> 0]
  /\ page = PageState
  /\ listed = << >>
  /\ paste = NoPaste
  /\ home = HomeState
  /\ hist = Hist0(store)

(* ------------------------------- the clock ----------------------------- *)
Tick ==
  /\ now < (4 + MaxClock) * ClockStep
  /\ now' = now + ClockStep
  /\ UNCHANGED <<home, paste, page, listed, connections, isInitialized, store, tauri, redirectPending,
                 init, cp, tok, rem, removals, agg, ops, hist>>

(* ------------------------------ initialize() --------------------------- *)
\* this.connections.set(connection.id, connection), with its history
SetConnection(c, uid, h) ==
  /\ connections' = MapSet(connections, c)
  /\ listed' = Unalias(listed, {c.id})
  /\ hist' = [h EXCEPT !.assigned = @ \cup {<<c.provider, uid, c.id>>},
                       !.lastAuth = <<c.provider, uid>>]

\* initialize() after the redirect handling: on to loadConnections
InitContinue(i) == [init[i] EXCEPT !.pc = "load", !.res = NoRes, !.conn = NoConn]

\* initialize() without the try around the redirect handling
InitCatch_rethrow(i) ==
  [init[i] EXCEPT !.pc = "done", !.out = "raised", !.res = NoRes, !.conn = NoConn]

\* the catch around the redirect handling: the error is logged and
\* initialize() goes on to loadConnections
InitCatch(i) == [InitContinue(i) EXCEPT !.caught = @ \cup {"redirect"}]

\* the catch inside loadConnections: the error is logged, loadConnections
\* returns, and initialize() completes
LoadCatch(i) == [init[i] EXCEPT !.pc = "done", !.out = "returned",
                                !.caught = @ \cup {"load"}]

\* if (this.isInitialized) return; otherwise await getRedirectResult(auth)
InitStart(i) ==
  /\ init[i].pc \in {"idle", "done"}
  /\ ops.init < MaxInits
  /\ ops' = [ops EXCEPT !.init = @ + 1]
  /\ IF isInitialized
     THEN /\ init' = [init EXCEPT ![i] = [InitCall EXCEPT !.pc = "done", !.early = TRUE,
                                                        !.out = "returned"]]
          /\ UNCHANGED hist
     ELSE /\ init' = [init EXCEPT ![i] = [InitCall EXCEPT !.pc = "redirect"]]
          /\ hist' = [hist EXCEPT !.redirectChecks = @ + 1]
  /\ UNCHANGED <<home, paste, page, listed, connections, isInitialized, store, now, tauri, redirectPending,
                 cp, tok, rem, removals, agg>>

\* getRedirectResult settles: null, a UserCredential, or a rejection
InitRedirect(i) ==
  /\ init[i].pc = "redirect"
  /\ \E r \in {redirectPending, ErrRes} :
       /\ redirectPending' = IF r = ErrRes THEN redirectPending ELSE NoRes
       /\ IF r.kind # "cred"
          THEN /\ init' = [init EXCEPT ![i] = IF r.kind = "error" THEN InitCatch(i)
                                              ELSE InitContinue(i)]
               /\ UNCHANGED <<connections, listed, hist>>
          ELSE LET o == processAuthResult(r, now) IN
               CASE o.k = "throw" ->
                      /\ init' = [init EXCEPT ![i] = InitCatch(i)]
                      /\ UNCHANGED <<connections, listed, hist>>
                 [] o.k = "idtoken" ->
                      /\ init' = [init EXCEPT ![i].pc = "idtoken", ![i].res = r]
                      /\ UNCHANGED <<connections, listed, hist>>
                 [] o.k = "save" ->
                      /\ init' = [init EXCEPT ![i].pc = "save", ![i].res = r,
                                              ![i].conn = o.conn,
                                              ![i].fin = o.conn.id]
                      /\ SetConnection(o.conn, r.uid,
                                       [hist EXCEPT !.finalized = @ + 1])
  /\ UNCHANGED <<home, paste, page, isInitialized, store, now, tauri, cp, tok, rem, removals, agg, ops>>

\* user.getIdToken() settles inside processAuthResult
InitIdToken(i) ==
  /\ init[i].pc = "idtoken"
  /\ LET o == processAuthResultIdToken(init[i].res, init[i].res.idToken, now) IN
       IF o.k = "throw"
       THEN /\ init' = [init EXCEPT ![i] = InitCatch(i)]
            /\ UNCHANGED <<connections, listed, hist>>
       ELSE /\ init' = [init EXCEPT ![i].pc = "save", ![i].conn = o.conn,
                                    ![i].fin = o.conn.id]
            /\ SetConnection(o.conn, init[i].res.uid,
                             [hist EXCEPT !.finalized = @ + 1])
  /\ UNCHANGED <<home, paste, page, isInitialized, store, now, tauri, redirectPending,
                 cp, tok, rem, removals, agg, ops>>

\* saveConnectionToBackend settles; initialize() goes on to loadConnections
\* whether it resolved or rejected
InitSave(i) ==
  /\ init[i].pc = "save"
  /\ \E ok \in BOOLEAN :
       /\ store' = IF ok THEN StoreUpsert(store, ToRecord(init[i].conn)) ELSE store
       /\ init' = [init EXCEPT ![i] = IF ok THEN InitContinue(i) ELSE InitCatch(i)]
  /\ UNCHANGED <<home, paste, page, listed, connections, isInitialized, now, tauri, redirectPending,
                 cp, tok, rem, removals, agg, ops, hist>>

RECURSIVE Rebuild(_, _, _)
\* the for loop of loadConnections over the records read from the store
Rebuild(m, records, t) ==
  IF records = << >> THEN m
  ELSE Rebuild(MapSet(m, FromRecord(Head(records), t)), Tail(records), t)

(* loadConnections: invoke('get_calendar_connections') reads the store.    *)
(* A failed read is caught inside loadConnections, after which initialize  *)
(* sets isInitialized all the same.                                        *)
InitLoadRead(i) ==
  /\ init[i].pc = "load"
  /\ \E ok \in BOOLEAN :
       IF ok
       THEN /\ init' = [init EXCEPT ![i].pc = "apply", ![i].snap = StoreList(store)]
            /\ hist' = [hist EXCEPT !.storeLoads = @ + 1]
            /\ UNCHANGED isInitialized
       ELSE /\ init' = [init EXCEPT ![i] = LoadCatch(i)]
            /\ isInitialized' = TRUE
            /\ UNCHANGED hist
  /\ UNCHANGED <<home, paste, page, listed, connections, store, now, tauri, redirectPending,
                 cp, tok, rem, removals, agg, ops>>

\* the read has resolved: this.connections.clear(), the rebuild, and
\* this.isInitialized = true
InitLoadApply(i) ==
  /\ init[i].pc = "apply"
  /\ connections' = Rebuild(<< >>, init[i].snap, now)
  /\ listed' = Unalias(listed, MapIds(connections))
  /\ agg' = [agg EXCEPT !.cursor = 0]
  /\ isInitialized' = TRUE
  /\ init' = [init EXCEPT ![i].pc = "done", ![i].out = "returned",
                          ![i].snap = << >>]
  /\ hist' = [hist EXCEPT !.everLoaded = TRUE]
  /\ UNCHANGED <<home, paste, page, store, now, tauri, redirectPending, cp, tok, rem, removals, ops>>

initialize(i) ==
  \/ InitStart(i) \/ InitRedirect(i) \/ InitIdToken(i) \/ InitSave(i)
  \/ InitLoadRead(i) \/ InitLoadApply(i)

(* ------------------- the page around connectProvider ------------------- *)
\* errorMessage?.startsWith('AUTH_TOKEN_NEEDED:')
StartsWithTokenNeeded(e) == e.msg = "AUTH_TOKEN_NEEDED:"

\* errorMessage?.includes('complete authentication in your browser')
IncludesCompleteInBrowser(e) ==
  e.msg = "Please complete authentication in your browser."

\* errorMessage.split(':')[0]
SplitProvider_first(e) == e.msg

\* errorMessage.split(':')[1] of `AUTH_TOKEN_NEEDED:${providerId}`
SplitProvider(e) == e.arg

(* The catch of connectCalendarProvider: the token dialog for              *)
(* AUTH_TOKEN_NEEDED, an alert of its own for the browser message and for  *)
(* the popup-blocked code, and the alert 'Failed to connect calendar: ...' *)
(* for every other error.                                                  *)
PageCatch(pg, e) ==
  IF StartsWithTokenNeeded(e)
  THEN [pg EXCEPT !.pendingProvider = SplitProvider(e), !.showTokenInput = TRUE,
                  !.prompt = "token"]
  ELSE IF IncludesCompleteInBrowser(e) THEN [pg EXCEPT !.prompt = "browser"]
  ELSE IF e.code = "auth/popup-blocked" THEN [pg EXCEPT !.prompt = "popupBlocked"]
  ELSE [pg EXCEPT !.prompt = "failed"]

\* connectCalendarProvider once its connectProvider call has settled
PageAfterConnect(pg, call) ==
  IF call.pc # "done" THEN pg
  ELSE IF call.out = "returned" THEN [pg EXCEPT !.prompt = "connected"]
  ELSE PageCatch(pg, call.err)

\* submitAuthToken once its processAuthToken call has settled; a call that
\* the page did not make leaves the page as it is
PageAfterSubmit(pg, call) ==
  IF ~pg.submitting \/ call.pc # "done" THEN pg
  ELSE IF call.out = "returned"
  THEN [pg EXCEPT !.showTokenInput = FALSE, !.pendingProvider = "",
                  !.submitting = FALSE, !.prompt = "connected"]
  ELSE [pg EXCEPT !.submitting = FALSE, !.prompt = "tokenFailed"]

(* ---------------------------- connectProvider() ------------------------ *)
\* what signInWithPopup can reject with
PopupErrors ==
  {Err("auth/popup-blocked", "Firebase: Error (auth/popup-blocked).", ""),
   Err("auth/popup-closed-by-user", "Firebase: Error (auth/popup-closed-by-user).", ""),
   Err("auth/cancelled-popup-request", "Firebase: Error (auth/cancelled-popup-request).", ""),
   Err("auth/network-request-failed", "Firebase: Error (auth/network-request-failed).", "")}

\* errorMessage?.includes('popup')
MessageIncludesPopup(e) ==
  e.code \in {"auth/popup-blocked", "auth/popup-closed-by-user",
              "auth/cancelled-popup-request"}

\* the condition under which the catch of the popup attempt starts a redirect
FallsBackToRedirect(e) ==
  \/ e.code = "auth/popup-blocked"
  \/ e.code = "auth/popup-closed-by-user"
  \/ MessageIncludesPopup(e)

CpRaise(e) == [cp EXCEPT !.pc = "done", !.out = "raised", !.err = e,
                         !.res = NoRes, !.conn = NoConn]

CpReturn(c) == [cp EXCEPT !.pc = "done", !.out = "returned", !.ret = c,
                          !.res = NoRes, !.conn = NoConn]

\* no other call of the service is between its start and its end
AtRest ==
  /\ \A i \in InitIds : init[i].pc \in {"idle", "done"}
  /\ tok.pc \in {"idle", "done"}
  /\ rem.pc \in {"idle", "done"} /\ removals = {}
  /\ agg.pc \in {"idle", "done"}

\* the calls of the other operations started so far
OtherOps(o) == <<o.init, o.tok, o.rem, o.agg, o.write>>

CpStart(providerId) ==
  /\ cp.pc \in {"idle", "done"}
  /\ ops.cp < MaxConnects
  /\ ops' = [ops EXCEPT !.cp = @ + 1]
  /\ cp' = IF providerId \notin SupportedProviders
           THEN [CpCall EXCEPT !.providerId = providerId, !.pc = "done",
                               !.out = "raised",
                               !.err = Err("", "Provider not supported", providerId)]
           ELSE [CpCall EXCEPT !.providerId = providerId,
                               !.pc = IF tauri THEN "open" ELSE "popup"]
  /\ UNCHANGED <<home, paste, listed, connections, isInitialized, store, now, tauri, redirectPending,
                 init, tok, rem, removals, agg>>
  /\ page' = PageAfterConnect(page, cp')

\* the history keeps what the table and the store held when the call started
CpBefore ==
  IF AtRest
  THEN [alone |-> TRUE, connections |-> connections, store |-> store,
        ops |-> OtherOps(ops)]
  ELSE [alone |-> FALSE, connections |-> << >>, store |-> << >>, ops |-> << >>]

\* Tauri shell: open(authUrl) settles either way, then AUTH_TOKEN_NEEDED is
\* thrown, which the catch of the popup attempt rethrows
CpOpen ==
  /\ cp.pc = "open"
  /\ \E opened \in BOOLEAN :
       cp' = CpRaise(Err("", "AUTH_TOKEN_NEEDED:", cp.providerId))
  /\ UNCHANGED <<home, paste, listed, connections, isInitialized, store, now, tauri, redirectPending,
                 init, tok, rem, removals, agg, ops, hist>>
  /\ page' = PageAfterConnect(page, cp')

\* signInWithPopup settles
CpPopup ==
  /\ cp.pc = "popup"
  /\ \/ \E e \in PopupErrors :
          /\ cp' = IF FallsBackToRedirect(e)
                   THEN [cp EXCEPT !.pc = "redirecting"]
                   ELSE CpRaise(e)
          /\ UNCHANGED <<connections, listed, hist>>
     \/ \E r \in UserCredentials :
          LET o == processAuthResult(r, now) IN
          CASE o.k = "throw" ->
                 /\ cp' = CpRaise(Err("", o.err, ""))
                 /\ UNCHANGED <<connections, listed, hist>>
            [] o.k = "idtoken" ->
                 /\ cp' = [cp EXCEPT !.pc = "idtoken", !.res = r]
                 /\ UNCHANGED <<connections, listed, hist>>
            [] o.k = "save" ->
                 /\ cp' = [cp EXCEPT !.pc = "save", !.res = r, !.conn = o.conn]
                 /\ SetConnection(o.conn, r.uid, hist)
  /\ UNCHANGED <<home, paste, isInitialized, store, now, tauri, redirectPending,
                 init, tok, rem, removals, agg, ops>>
  /\ page' = PageAfterConnect(page, cp')

\* the error thrown once signInWithRedirect has resolved
RedirectInitiated ==
  Err("", "Redirect initiated. The page will reload after authentication.", "")

\* signInWithRedirect settles
CpRedirecting ==
  /\ cp.pc = "redirecting"
  /\ \E started \in BOOLEAN :
       cp' = IF started
             THEN CpRaise(RedirectInitiated)
             ELSE CpRaise(Err("auth/internal-error", "Firebase: Error (auth/internal-error).", ""))
  /\ UNCHANGED <<home, paste, listed, connections, isInitialized, store, now, tauri, redirectPending,
                 init, tok, rem, removals, agg, ops, hist>>
  /\ page' = PageAfterConnect(page, cp')

CpIdToken ==
  /\ cp.pc = "idtoken"
  /\ LET o == processAuthResultIdToken(cp.res, cp.res.idToken, now) IN
       IF o.k = "throw"
       THEN /\ cp' = CpRaise(Err("", o.err, ""))
            /\ UNCHANGED <<connections, listed, hist>>
       ELSE /\ cp' = [cp EXCEPT !.pc = "save", !.conn = o.conn]
            /\ SetConnection(o.conn, cp.res.uid, hist)
  /\ UNCHANGED <<home, paste, isInitialized, store, now, tauri, redirectPending,
                 init, tok, rem, removals, agg, ops>>
  /\ page' = PageAfterConnect(page, cp')

\* saveConnectionToBackend settles: return connection, or rethrow
CpSave ==
  /\ cp.pc = "save"
  /\ \E ok \in BOOLEAN :
       IF ok
       THEN /\ store' = StoreUpsert(store, ToRecord(cp.conn))
            /\ cp' = CpReturn(cp.conn)
       ELSE /\ store' = store
            /\ cp' = CpRaise(Err("", "invoke failed", ""))
  /\ UNCHANGED <<home, paste, listed, connections, isInitialized, now, tauri, redirectPending,
                 init, tok, rem, removals, agg, ops, hist>>
  /\ page' = PageAfterConnect(page, cp')

(* signInWithRedirect has navigated away and the provider sends the browser *)
(* back: the page loads anew.  The module is imported again: a new service  *)
(* with an empty table, no call pending, and the outcome of the sign-in     *)
(* waiting for getRedirectResult.  The credential store is what it was.     *)
PageReloads ==
  /\ cp.pc = "done" /\ cp.out = "raised" /\ cp.err = RedirectInitiated
  /\ ops.reload < MaxReloads
  /\ ops' = [ops EXCEPT !.reload = @ + 1, !.init = 0]
  /\ redirectPending' \in RedirectOutcomes
  /\ connections' = << >>
  /\ isInitialized' = FALSE
  /\ init' = [i \in InitIds |-> InitCall]
  /\ cp' = CpCall
  /\ tok' = TokCall
  /\ rem' = RemCall
  /\ removals' = {}
  /\ agg' = AggCall
  /\ page' = PageState
  /\ listed' = << >>
  /\ paste' = NoPaste
  /\ home' = HomeState
  /\ hist' = Hist0(store)
  /\ UNCHANGED <<store, now, tauri>>

CpSteps == CpOpen \/ CpPopup \/ CpRedirecting \/ CpIdToken \/ CpSave

connectProvider ==
  \/ \E p \in ProviderIds : CpStart(p) /\ UNCHANGED hist
  \/ CpOpen \/ CpPopup \/ CpRedirecting \/ CpIdToken \/ CpSave

(* ---------------------------- processAuthToken() ----------------------- *)
(* A pasted token: surrounding whitespace or not, valid base64 or not, and *)
(* the text the base64 stands for: no JSON, the JSON null, or an object.   *)
Payloads ==
  {[json |-> "object", provider |-> pr, uid |-> u, email |-> EmailOf(u),
    accessToken |-> at] :
      pr \in ProviderIds \cup {UNDEFINED}, u \in Uids, at \in {"mt", UNDEFINED}}

Texts ==
  Payloads \cup {[json |-> j, provider |-> UNDEFINED, uid |-> "u1",
                  email |-> NULL, accessToken |-> ""] : j \in {"garbage", "null"}}

Tokens ==
  {[pad |-> w, b64 |-> TRUE, json |-> x.json, provider |-> x.provider, uid |-> x.uid,
    email |-> x.email, accessToken |-> x.accessToken] : w \in BOOLEAN, x \in Texts}
  \cup {[pad |-> w, b64 |-> FALSE, json |-> "garbage", provider |-> UNDEFINED,
         uid |-> "u1", email |-> NULL, accessToken |-> ""] : w \in BOOLEAN}

\* token.trim()
Trim(token) == [token EXCEPT !.pad = FALSE]

\* atob: throws on what is not base64, otherwise yields the text
Atob(token) ==
  IF ~token.b64 THEN [token EXCEPT !.json = THROWS]
  ELSE [token EXCEPT !.b64 = FALSE]

\* JSON.parse of a text: throws, or yields null or the object
JSONParse(text) ==
  [kind |-> IF text.json \in {THROWS, "garbage"} THEN THROWS ELSE text.json,
   provider |-> text.provider, uid |-> text.uid, email |-> text.email,
   accessToken |-> text.accessToken]

\* processAuthToken without its comparison of authData.provider
DecodeToken_anyProvider(providerId, token, t) ==
  LET authData == JSONParse(Atob(Trim(token))) IN
  IF authData.kind \in {THROWS, "null"} THEN [ok |-> FALSE, conn |-> NoConn]
  ELSE [ok |-> TRUE,
        conn |-> NewConnection(providerId, authData.uid, authData.email,
                               authData.accessToken, UNDEFINED, t)]

\* the try block of processAuthToken up to the connection it builds;
\* ok = FALSE when anything in it throws
DecodeToken(providerId, token, t) ==
  LET authData == JSONParse(Atob(Trim(token))) IN
  IF authData.kind = THROWS THEN [ok |-> FALSE, conn |-> NoConn]
  ELSE IF authData.kind = "null" THEN [ok |-> FALSE, conn |-> NoConn]
  ELSE IF authData.provider # providerId THEN [ok |-> FALSE, conn |-> NoConn]
  ELSE [ok |-> TRUE,
        conn |-> NewConnection(providerId, authData.uid, authData.email,
                               authData.accessToken, UNDEFINED, t)]

\* what was pasted, as the caller sees it
TokenKind(providerId, token) ==
  IF ~token.b64 THEN "notBase64"
  ELSE IF token.json = "garbage" THEN "notJSON"
  ELSE IF token.json = "null" THEN "null"
  ELSE IF token.provider # providerId THEN "mismatch"
  ELSE "valid"

InvalidToken == Err("", "Invalid token format. Please try authentication again.", "")

(* ---- the token as text ------------------------------------------------ *)
(* A text is a sequence of UTF-16 code units.  A base64 text is written    *)
(* with the digits 0..63 for A-Z a-z 0-9 + /, with 64 for "=" and 65 for a *)
(* blank.  The strings of the model are named; Chars is their spelling.    *)

Strings ==
  {"provider", "email", "uid", "accessToken", "idToken",
   "google", "microsoft", "other", "u1", "u2",
   "a@x", "b@x", "q\"\\@x", "e-acute@x", "l-stroke@x", "mt", "m/t", "id"}

Chars(s) ==
  CASE s = "provider" -> <<112, 114, 111, 118, 105, 100, 101, 114>>
    [] s = "email" -> <<101, 109, 97, 105, 108>>
    [] s = "uid" -> <<117, 105, 100>>
    [] s = "accessToken" -> <<97, 99, 99, 101, 115, 115, 84, 111, 107, 101, 110>>
    [] s = "idToken" -> <<105, 100, 84, 111, 107, 101, 110>>
    [] s = "google" -> <<103, 111, 111, 103, 108, 101>>
    [] s = "microsoft" -> <<109, 105, 99, 114, 111, 115, 111, 102, 116>>
    [] s = "other" -> <<111, 116, 104, 101, 114>>
    [] s = "u1" -> <<117, 49>>
    [] s = "u2" -> <<117, 50>>
    [] s = "a@x" -> <<97, 64, 120>>
    [] s = "b@x" -> <<98, 64, 120>>
    [] s = "q\"\\@x" -> <<113, 34, 92, 64, 120>>
    [] s = "e-acute@x" -> <<233, 64, 120>>
    [] s = "l-stroke@x" -> <<322, 64, 120>>
    [] s = "mt" -> <<109, 116>>
    [] s = "m/t" -> <<109, 47, 116>>
    [] s = "id" -> <<105, 100>>

\* the string spelled by a sequence of code units
Intern(codes) ==
  IF \E s \in Strings : Chars(s) = codes
  THEN CHOOSE s \in Strings : Chars(s) = codes
  ELSE "<text>"

\* what signIn of the auth page can put in tokenData
TokenPayloads ==
  {[provider |-> pr, email |-> e, uid |-> u, accessToken |-> at, idToken |-> "id"] :
     pr \in SupportedProviders,
     e \in {NULL, "a@x", "q\"\\@x", "e-acute@x", "l-stroke@x"},
     u \in Uids, at \in {"mt", "m/t"}}

\* the members of tokenData in the order of the object literal
TokenData(payload) ==
  <<(<<"provider", payload.provider>>), (<<"email", payload.email>>),
    (<<"uid", payload.uid>>), (<<"accessToken", payload.accessToken>>),
    (<<"idToken", payload.idToken>>)>>

\* JSON.stringify of a string without its quotes: the quote and the
\* backslash are escaped (control characters are not in the alphabet)
RECURSIVE JSONEscape_raw(_)
JSONEscape_raw(codes) == codes

RECURSIVE JSONEscape(_)
JSONEscape(codes) ==
  IF codes = << >> THEN << >>
  ELSE (IF Head(codes) \in {34, 92} THEN <<92, Head(codes)>> ELSE <<Head(codes)>>)
       \o JSONEscape(Tail(codes))

JSONQuote(s) == <<34>> \o JSONEscape(Chars(s)) \o <<34>>

\* JSON.stringify of an object of strings: members whose value is
\* undefined are left out, null is written as the literal
RECURSIVE JSONMembers(_, _)
JSONMembers(members, first) ==
  IF members = << >> THEN << >>
  ELSE LET k == Head(members)[1]
           v == Head(members)[2] IN
       IF v = UNDEFINED THEN JSONMembers(Tail(members), first)
       ELSE (IF first THEN << >> ELSE <<44>>)
            \o JSONQuote(k) \o <<58>>
            \o (IF v = NULL THEN <<110, 117, 108, 108>> ELSE JSONQuote(v))
            \o JSONMembers(Tail(members), FALSE)

stringifyJSON(members) == <<123>> \o JSONMembers(members, TRUE) \o <<125>>

\* the base64 digits of a sequence of bytes
RECURSIVE Base64(_)
Base64(b) ==
  IF Len(b) = 0 THEN << >>
  ELSE IF Len(b) = 1
  THEN <<b[1] \div 4, (b[1] % 4) * 16, 64, 64>>
  ELSE IF Len(b) = 2
  THEN <<b[1] \div 4, (b[1] % 4) * 16 + b[2] \div 16, (b[2] % 16) * 4, 64>>
  ELSE <<b[1] \div 4, (b[1] % 4) * 16 + b[2] \div 16,
         (b[2] % 16) * 4 + b[3] \div 64, b[3] % 64>>
       \o Base64(SubSeq(b, 4, Len(b)))

\* btoa: throws on a code unit above 255
btoaText(text) ==
  IF \E i \in DOMAIN text : text[i] > 255 THEN [ok |-> FALSE, s |-> << >>]
  ELSE [ok |-> TRUE, s |-> Base64(text)]

\* token.trim(): blanks at both ends are dropped
RECURSIVE trimText(_)
trimText(s) ==
  IF s = << >> THEN s
  ELSE IF Head(s) = 65 THEN trimText(Tail(s))
  ELSE IF s[Len(s)] = 65 THEN trimText(SubSeq(s, 1, Len(s) - 1))
  ELSE s

\* the bytes of a sequence of base64 digits, leftover bits discarded
RECURSIVE Bytes(_)
Bytes(d) ==
  IF Len(d) < 2 THEN << >>
  ELSE IF Len(d) = 2 THEN <<d[1] * 4 + d[2] \div 16>>
  ELSE IF Len(d) = 3
  THEN <<d[1] * 4 + d[2] \div 16, (d[2] % 16) * 16 + d[3] \div 4>>
  ELSE <<d[1] * 4 + d[2] \div 16, (d[2] % 16) * 16 + d[3] \div 4,
         (d[3] % 4) * 64 + d[4]>>
       \o Bytes(SubSeq(d, 5, Len(d)))

\* atob: blanks are removed, one or two "=" at the end of a text whose
\* length is a multiple of four are dropped; what remains must be digits
\* and not one digit beyond a multiple of four
atobText(s) ==
  LET n == SelectSeq(s, LAMBDA c : c # 65)
      d == IF Len(n) > 0 /\ Len(n) % 4 = 0 /\ n[Len(n)] = 64
           THEN IF n[Len(n) - 1] = 64 THEN SubSeq(n, 1, Len(n) - 2)
                ELSE SubSeq(n, 1, Len(n) - 1)
           ELSE n IN
  IF Len(d) % 4 = 1 \/ \E i \in DOMAIN d : d[i] \notin 0..63
  THEN [ok |-> FALSE, s |-> << >>]
  ELSE [ok |-> TRUE, s |-> Bytes(d)]

\* a JSON string from the code unit after its opening quote
RECURSIVE ScanString(_, _, _)
ScanString(text, i, acc) ==
  IF i > Len(text) THEN [ok |-> FALSE, s |-> acc, next |-> i]
  ELSE IF text[i] = 34 THEN [ok |-> TRUE, s |-> acc, next |-> i + 1]
  ELSE IF text[i] = 92
  THEN IF i + 1 <= Len(text) /\ text[i + 1] \in {34, 92, 47}
       THEN ScanString(text, i + 2, Append(acc, text[i + 1]))
       ELSE [ok |-> FALSE, s |-> acc, next |-> i]
  ELSE IF text[i] < 32 THEN [ok |-> FALSE, s |-> acc, next |-> i]
  ELSE ScanString(text, i + 1, Append(acc, text[i]))

\* a JSON value that is a string or null
ParseValue(text, i) ==
  IF i <= Len(text) /\ text[i] = 34
  THEN LET r == ScanString(text, i + 1, << >>) IN
       [ok |-> r.ok, v |-> Intern(r.s), next |-> r.next]
  ELSE IF i + 3 <= Len(text) /\ SubSeq(text, i, i + 3) = <<110, 117, 108, 108>>
  THEN [ok |-> TRUE, v |-> NULL, next |-> i + 4]
  ELSE [ok |-> FALSE, v |-> UNDEFINED, next |-> i]

\* the members of a JSON object from text[i] on; obj is what was read
RECURSIVE ParseMembers(_, _, _)
ParseMembers(text, i, obj) ==
  IF i > Len(text) \/ text[i] # 34 THEN [ok |-> FALSE, obj |-> obj]
  ELSE LET k == ScanString(text, i + 1, << >>) IN
       IF ~k.ok \/ k.next > Len(text) \/ text[k.next] # 58
       THEN [ok |-> FALSE, obj |-> obj]
       ELSE LET v == ParseValue(text, k.next + 1)
                o == Append(obj, <<Intern(k.s), v.v>>) IN
            IF ~v.ok \/ v.next > Len(text) THEN [ok |-> FALSE, obj |-> obj]
            ELSE IF text[v.next] = 44 THEN ParseMembers(text, v.next + 1, o)
            ELSE IF text[v.next] = 125 /\ v.next = Len(text)
            THEN [ok |-> TRUE, obj |-> o]
            ELSE [ok |-> FALSE, obj |-> obj]

\* obj.key: the last member of that name, or undefined
Member(obj, key) ==
  LET at == {i \in DOMAIN obj : obj[i][1] = key} IN
  IF at = {} THEN UNDEFINED
  ELSE obj[CHOOSE i \in at : \A j \in at : j <= i][2]

\* JSON.parse of the texts the auth page writes: an object of strings and
\* nulls, the literal null, or a SyntaxError
parseJSON(text) ==
  IF text = <<110, 117, 108, 108>> THEN [kind |-> "null", obj |-> << >>]
  ELSE IF text = <<123, 125>> THEN [kind |-> "object", obj |-> << >>]
  ELSE IF Len(text) > 2 /\ text[1] = 123
  THEN LET r == ParseMembers(text, 2, << >>) IN
       [kind |-> IF r.ok THEN "object" ELSE THROWS, obj |-> r.obj]
  ELSE [kind |-> THROWS, obj |-> << >>]

\* btoa(JSON.stringify(tokenData)) of the auth page
EncodeToken(payload) == btoaText(stringifyJSON(TokenData(payload)))

\* JSON.parse(atob(token.trim())) of processAuthToken
ParseToken(token) ==
  LET bin == atobText(trimText(token)) IN
  IF ~bin.ok THEN [kind |-> THROWS, obj |-> << >>] ELSE parseJSON(bin.s)

\* the try block of processAuthToken on a token text, up to the connection
\* it builds; ok = FALSE when anything in it throws
DecodeTokenText(providerId, token, t) ==
  LET authData == ParseToken(token) IN
  IF authData.kind # "object" THEN [ok |-> FALSE, conn |-> NoConn]
  ELSE IF Member(authData.obj, "provider") # providerId
  THEN [ok |-> FALSE, conn |-> NoConn]
  ELSE [ok |-> TRUE,
        conn |-> NewConnection(providerId, Member(authData.obj, "uid"),
                               Member(authData.obj, "email"),
                               Member(authData.obj, "accessToken"), UNDEFINED, t)]

\* what the token text is, as the caller sees it
TokenTextKind(providerId, token) ==
  LET bin == atobText(trimText(token))
      authData == ParseToken(token) IN
  IF ~bin.ok THEN "notBase64"
  ELSE IF authData.kind = THROWS THEN "notJSON"
  ELSE IF authData.kind = "null" THEN "null"
  ELSE IF Member(authData.obj, "provider") # providerId THEN "mismatch"
  ELSE "valid"

(* processAuthToken up to its await, d being what its try block made of    *)
(* the token: the catch, or connections.set and on to the save.            *)
TokBegin(providerId, d, kind, uid) ==
  /\ tok.pc \in {"idle", "done"}
  /\ ops.tok < MaxTokens
  /\ ops' = [ops EXCEPT !.tok = @ + 1]
  /\ IF ~d.ok
     THEN /\ tok' = [TokCall EXCEPT !.pc = "done", !.providerId = providerId,
                                   !.kind = kind,
                                   !.out = "raised", !.err = InvalidToken]
          /\ UNCHANGED <<connections, listed, hist>>
     ELSE /\ tok' = [TokCall EXCEPT !.pc = "save", !.providerId = providerId,
                                   !.kind = kind, !.conn = d.conn]
          /\ SetConnection(d.conn, uid, hist)
  /\ UNCHANGED <<home, isInitialized, store, now, tauri, redirectPending,
                 init, cp, rem, removals, agg>>

TokStart(providerId, token) ==
  /\ TokBegin(providerId, DecodeToken(providerId, token, now),
              TokenKind(providerId, token), token.uid)
  /\ paste' = paste

\* saveConnectionToBackend settles; its rejection is caught by the same
\* catch as a decoding error
TokSave ==
  /\ tok.pc = "save"
  /\ \E ok \in BOOLEAN :
       IF ok /\ ~SaveThrows(tok.conn)
       THEN /\ store' = StoreUpsert(store, ToRecord(tok.conn))
            /\ tok' = [tok EXCEPT !.pc = "done", !.out = "returned",
                                  !.ret = tok.conn, !.conn = NoConn]
       ELSE /\ store' = store
            /\ tok' = [tok EXCEPT !.pc = "done", !.out = "raised",
                                  !.err = InvalidToken, !.conn = NoConn]
  /\ UNCHANGED <<home, paste, listed, connections, isInitialized, now, tauri, redirectPending,
                 init, cp, rem, removals, agg, ops, hist>>
  /\ page' = PageAfterSubmit(page, tok')

processAuthToken ==
  \/ \E p \in ProviderIds, token \in Tokens : TokStart(p, token) /\ page' = page
  \/ TokSave

\* submitAuthToken of the page: processAuthToken(pendingProvider, authToken)
\* when a token was typed and a provider is pending
submitAuthToken ==
  \E token \in Tokens :
    /\ page.pendingProvider # ""
    /\ TokStart(page.pendingProvider, token)
    /\ page' = PageAfterSubmit([page EXCEPT !.submitting = TRUE], tok')

(* ---- the token on its way from the auth page to the dialog ------------ *)

\* signIn of the auth page after the popup: the token is shown, or btoa
\* throws and the page shows the error instead
AuthPageSignIn ==
  /\ paste.stage = "none"
  /\ \E payload \in TokenPayloads :
       LET enc == EncodeToken(payload) IN
       paste' = [stage |-> IF enc.ok THEN "shown" ELSE "failed",
                 payload |-> payload, token |-> enc.s]
  /\ UNCHANGED <<home, connections, isInitialized, store, now, tauri, redirectPending,
                 init, cp, tok, rem, removals, agg, ops, page, listed, hist>>

\* the user copies the token and pastes it into the dialog, with or
\* without blanks around it
CopyToken ==
  /\ paste.stage = "shown"
  /\ \E lead \in BOOLEAN, trail \in BOOLEAN :
       paste' = [paste EXCEPT
                   !.stage = "pasted",
                   !.token = (IF lead THEN <<65>> ELSE << >>) \o @
                             \o (IF trail THEN <<65, 65>> ELSE << >>)]
  /\ UNCHANGED <<home, connections, isInitialized, store, now, tauri, redirectPending,
                 init, cp, tok, rem, removals, agg, ops, page, listed, hist>>

\* processAuthToken(providerId, token) on the pasted text, up to its await
PasteStart(providerId) ==
  /\ paste.stage = "pasted"
  /\ LET d == DecodeTokenText(providerId, paste.token, now) IN
       TokBegin(providerId, d, TokenTextKind(providerId, paste.token),
                Member(ParseToken(paste.token).obj, "uid"))
  /\ paste' = [paste EXCEPT !.stage = "submitted"]
  /\ page' = page

pasteAuthToken ==
  \/ AuthPageSignIn
  \/ CopyToken
  \/ \E p \in SupportedProviders : PasteStart(p)
  \/ TokSave

(* ---------------------------- removeConnection() ----------------------- *)
UnknownId == ConnId("google", "nobody")

\* this.connections.delete(connectionId), seen by a running values() iterator
DeleteConnection(id) ==
  /\ connections' = MapDelete(connections, id)
  /\ listed' = Unalias(listed, {id})
  /\ agg' = [agg EXCEPT !.cursor = CursorAfterDelete(connections, @, id)]
  /\ removals' = removals \cup {id}

\* removeConnection up to its await: the entry is deleted from the Map
RemBegin(id) ==
  /\ rem.pc \in {"idle", "done"}
  /\ ops' = [ops EXCEPT !.rem = @ + 1]
  /\ DeleteConnection(id)
  /\ rem' = [RemCall EXCEPT !.pc = "backend", !.id = id,
                            !.had = MapHas(connections, id)]
  /\ UNCHANGED <<home, paste, page, isInitialized, store, now, tauri, redirectPending,
                 init, cp, tok, hist>>

RemStart(id) == ops.rem < MaxRemoves /\ RemBegin(id)

\* removeConnection without the try around invoke
RemCatch_rethrow(r) ==
  [r EXCEPT !.pc = "done", !.invoked = "rejected", !.out = "raised"]

\* the catch of removeConnection: the rejection is logged, the call returns
RemCatch(r) ==
  [r EXCEPT !.pc = "done", !.invoked = "rejected", !.out = "returned"]

\* invoke('remove_calendar_connection') settles; a rejection is swallowed.
\* The call is the page's, or the one a fetcher made without awaiting it.
RemBackend(id) ==
  /\ id \in removals
  /\ removals' = removals \ {id}
  /\ \E ok \in BOOLEAN :
       /\ store' = IF ok THEN StoreRemove(store, id) ELSE store
       /\ rem' = IF rem.pc = "backend" /\ rem.id = id
                 THEN IF ok THEN [rem EXCEPT !.pc = "done", !.invoked = "resolved",
                                             !.out = "returned"]
                      ELSE RemCatch(rem)
                 ELSE rem
  /\ UNCHANGED <<home, paste, page, listed, connections, isInitialized, now, tauri, redirectPending,
                 init, cp, tok, agg, ops, hist>>

removeConnection ==
  \/ \E id \in MapIds(connections) \cup {UnknownId} : RemStart(id)
  \/ \E id \in removals : RemBackend(id)

\* the ids the page can ask to disconnect: the connections it lists, and
\* one it listed before
DisconnectIds ==
  MapIds(connections) \cup {UnknownId} \cup (IF rem.id = NULL THEN {} ELSE {rem.id})

\* disconnectCalendar of the page: removeConnection(connectionId), as often
\* as the user asks
disconnectCalendar ==
  \/ \E id \in DisconnectIds : ops.rem < MaxDisconnects /\ RemBegin(id)
  \/ \E id \in removals : RemBackend(id)

(* ------------------------------ getConnections() ---------------------- *)
\* a caller calls getConnections() and keeps the array
ListConnections ==
  /\ ops.list < MaxLists
  /\ ops' = [ops EXCEPT !.list = @ + 1]
  /\ listed' = Listed(connections)
  /\ UNCHANGED <<home, paste, page, connections, isInitialized, store, now, tauri, redirectPending,
                 init, cp, tok, rem, removals, agg, hist>>

(* The caller assigns accessToken of element k of its array.  The element  *)
(* is a reference: while the Map still holds the same object, the Map's    *)
(* entry has the new accessToken as well.                                  *)
CallerAssigns(k, token) ==
  /\ ops.write < MaxWrites
  /\ ops' = [ops EXCEPT !.write = @ + 1]
  /\ listed' = [listed EXCEPT ![k].val.accessToken = token]
  /\ connections' =
       IF listed[k].aliased
       THEN [connections EXCEPT ![MapIndex(connections, listed[k].key)].accessToken = token]
       ELSE connections
  /\ UNCHANGED <<home, paste, page, isInitialized, store, now, tauri, redirectPending,
                 init, cp, tok, rem, removals, agg, hist>>

\* the caller removes element k from its array: the array is the caller's own
CallerSplices(k) ==
  /\ ops.write < MaxWrites
  /\ ops' = [ops EXCEPT !.write = @ + 1]
  /\ listed' = SubSeq(listed, 1, k - 1) \o SubSeq(listed, k + 1, Len(listed))
  /\ UNCHANGED <<home, paste, page, connections, isInitialized, store, now, tauri, redirectPending,
                 init, cp, tok, rem, removals, agg, hist>>

callerOfGetConnections ==
  \/ ListConnections
  \/ \E k \in DOMAIN listed : CallerAssigns(k, "changed")
  \/ \E k \in DOMAIN listed : CallerSplices(k)

(* --------------------------- getAllCalendarEvents() -------------------- *)
(* What a provider answers to one request: fetch() rejects, or a response  *)
(* with a status, a body that may contain the text 401, and the event      *)
(* items of a 2xx body (hasItems = FALSE: the body has no items array).    *)
Item(id, start) == [id |-> id, start |-> start]

ItemLists == {<<Item("a", 1)>>, <<Item("a", 2), Item("b", 1)>>}

Response(kind, status, has401, hasItems, items) ==
  [kind |-> kind, status |-> status, bodyHas401 |-> has401,
   hasItems |-> hasItems, items |-> items]

Responses ==
  {Response("reject", 0, FALSE, FALSE, << >>)}
  \cup {Response("response", 200, FALSE, TRUE, l) : l \in ItemLists}
  \cup {Response("response", 200, FALSE, FALSE, << >>)}
  \cup {Response("response", 401, FALSE, FALSE, << >>)}
  \cup {Response("response", 500, b, FALSE, << >>) : b \in BOOLEAN}

\* a refreshToken that hands back a connection with a new token
refreshToken_renewing(connection) ==
  [connection EXCEPT !.accessToken = "renewed", !.expiresAt = 0]

\* refreshToken: null on every path
refreshToken(connection) ==
  IF connection.refreshToken = UNDEFINED THEN NoConn
  ELSE IF connection.provider = "google" THEN NoConn
  ELSE IF connection.provider = "microsoft" THEN NoConn
  ELSE NoConn

\* the connection a fetcher sends the request with, after its expiry check
RequestConnection(connection, t) ==
  IF connection.expiresAt # 0 /\ t > connection.expiresAt
     /\ refreshToken(connection) # NoConn
  THEN refreshToken(connection)
  ELSE connection

\* data.items.map(...) / data.value.map(...)
Normalize(items, provider) ==
  [k \in DOMAIN items |->
     [id |-> items[k].id, start |-> items[k].start, provider |-> provider]]

\* error.message.includes('401') on the Error thrown for a non-2xx response,
\* `... API error: ${response.status} - ${errorText}`
MessageIncludes401(resp) == resp.status = 401 \/ resp.bodyHas401

(* What one fetcher call makes of a settled request.  k = "retry": it      *)
(* calls itself with the refreshed connection; k = "return": it returns    *)
(* events, and evict tells whether its catch called removeConnection.      *)
FetchOut(k, conn, events, evict) ==
  [k |-> k, conn |-> conn, events |-> events, evict |-> evict]

\* a fetcher whose catch looks for another status than 401
fetchCalendarEvents_noEvict(connection, resp) ==
  IF resp.kind = "response" /\ resp.status = 200 /\ resp.hasItems
  THEN FetchOut("return", connection, Normalize(resp.items, connection.provider), FALSE)
  ELSE FetchOut("return", connection, << >>, FALSE)

fetchCalendarEvents(connection, resp) ==
  IF resp.kind = "reject"
  THEN FetchOut("return", connection, << >>, FALSE)
  ELSE IF resp.status # 200
  THEN IF resp.status = 401 /\ refreshToken(connection) # NoConn
       THEN FetchOut("retry", refreshToken(connection), << >>, FALSE)
       ELSE FetchOut("return", connection, << >>, MessageIncludes401(resp))
  ELSE IF ~resp.hasItems
  THEN FetchOut("return", connection, << >>, FALSE)
  ELSE FetchOut("return", connection, Normalize(resp.items, connection.provider), FALSE)

RECURSIVE Insert_unstable(_, _)
\* place e in front of the elements that start at the same time
Insert_unstable(e, sorted) ==
  IF sorted = << >> THEN <<e>>
  ELSE IF Head(sorted).start - e.start < 0
  THEN <<Head(sorted)>> \o Insert_unstable(e, Tail(sorted))
  ELSE <<e>> \o sorted

RECURSIVE Insert(_, _)
\* place e behind every element that does not start later
Insert(e, sorted) ==
  IF sorted = << >> THEN <<e>>
  ELSE IF Head(sorted).start - e.start <= 0
  THEN <<Head(sorted)>> \o Insert(e, Tail(sorted))
  ELSE <<e>> \o sorted

RECURSIVE SortByStart(_)
\* allEvents.sort((a, b) => a.start.getTime() - b.start.getTime())
SortByStart(events) ==
  IF events = << >> THEN << >>
  ELSE Insert(events[Len(events)], SortByStart(SubSeq(events, 1, Len(events) - 1)))

\* fetchGoogleCalendarEvents reads connection.accessToken.length before its
\* try block: a TypeError leaves the fetcher when there is no access token
FetcherThrows(c) == c.provider = "google" /\ c.accessToken = UNDEFINED

\* the loop body rethrowing what a fetcher threw
AggCatch_rethrow(a, c) ==
  [a EXCEPT !.pc = "done", !.cursor = 0, !.cur = NoConn, !.out = "raised",
            !.allEvents = << >>]

\* the catch of the loop body: the error is logged and the loop goes on
AggCatch(a, c) == [a EXCEPT !.cursor = @ + 1, !.thrown = @ \cup {c.id}]

RECURSIVE AggLoop(_, _, _)
(* The for loop over this.connections.values() from the iterator position  *)
(* of a on: a connection of neither provider contributes nothing, the next *)
(* google or microsoft connection gets its request sent, and when the      *)
(* iterator is exhausted the sorted list is returned.                      *)
AggLoop(a, m, t) ==
  IF a.cursor >= Len(m)
  THEN [a EXCEPT !.pc = "done", !.cursor = 0, !.cur = NoConn, !.out = "returned",
                 !.ret = SortByStart(a.allEvents), !.allEvents = << >>]
  ELSE LET c == m[a.cursor + 1] IN
       IF FetcherThrows(c)
       THEN IF AggCatch(a, c).pc = "done" THEN AggCatch(a, c)
            ELSE AggLoop(AggCatch(a, c), m, t)
       ELSE IF c.provider \in {"google", "microsoft"}
       THEN [a EXCEPT !.pc = "fetch", !.cursor = @ + 1,
                      !.cur = RequestConnection(c, t), !.requests = 1]
       ELSE AggLoop([a EXCEPT !.cursor = @ + 1], m, t)

AggStart ==
  /\ agg.pc \in {"idle", "done"}
  /\ ops.agg < MaxAggs
  /\ ops' = [ops EXCEPT !.agg = @ + 1]
  /\ agg' = AggLoop([AggCall EXCEPT !.pc = "loop"], connections, now)
  /\ hist' = [hist EXCEPT !.log = << >>]
  /\ UNCHANGED <<home, paste, page, listed, connections, isInitialized, store, now, tauri, redirectPending,
                 init, cp, tok, rem, removals>>

\* the request of the connection being fetched settles
AggFetch ==
  /\ agg.pc = "fetch"
  /\ \E resp \in Responses :
       LET o == fetchCalendarEvents(agg.cur, resp) IN
       IF o.k = "retry"
       THEN /\ agg' = [agg EXCEPT !.cur = o.conn, !.requests = @ + 1]
            /\ UNCHANGED <<connections, listed, removals, hist>>
       ELSE LET m == IF o.evict THEN MapDelete(connections, agg.cur.id)
                     ELSE connections
                a == [agg EXCEPT
                        !.cursor = IF o.evict
                                   THEN CursorAfterDelete(connections, @, agg.cur.id)
                                   ELSE @,
                        !.allEvents = @ \o o.events]
            IN /\ connections' = m
               /\ listed' = IF o.evict THEN Unalias(listed, {agg.cur.id}) ELSE listed
               /\ removals' = IF o.evict THEN removals \cup {agg.cur.id} ELSE removals
               /\ agg' = AggLoop(a, m, now)
               /\ hist' = [hist EXCEPT !.log = Append(@,
                              [id |-> agg.cur.id, status |-> resp.status,
                               requests |-> agg.requests, k |-> o.k,
                               events |-> o.events, evict |-> o.evict])]
  /\ UNCHANGED <<home, paste, page, isInitialized, store, now, tauri, redirectPending,
                 init, cp, tok, rem, ops>>

getAllCalendarEvents == AggStart \/ AggFetch

(* ---- the page around its calendar state -------------------------------- *)

\* what the actions of the page leave alone in the service and the dialog
ServiceUnchanged ==
  UNCHANGED <<connections, isInitialized, store, now, tauri, redirectPending,
              init, cp, tok, rem, removals, agg, ops, page, listed, paste, hist>>

\* syncCalendars() is called: it captures currentDate and awaits initialize()
StartSync(h) ==
  [h EXCEPT !.syncs = Append(@, [date |-> h.currentDate, pc |-> "initialize"])]

(* The two effects on calendarConnections and syncCalendars, run after a   *)
(* render in which one of them changed: the 5 s interval is there while    *)
(* the list is not empty, and a sync starts when the list is not empty.    *)
CalendarEffects(h) ==
  IF h.calendarConnections = {} THEN [h EXCEPT !.interval = FALSE]
  ELSE StartSync([h EXCEPT !.interval = TRUE])

\* loadCalendarConnections once its initialize() has resolved
loadCalendarConnections ==
  /\ isInitialized
  /\ Len(home.syncs) < MaxSyncs
  /\ home' = CalendarEffects(
               [home EXCEPT !.calendarConnections = MapIds(getConnections(connections)),
                            !.loaded = TRUE])
  /\ ServiceUnchanged

\* the 5 s interval fires: syncCalendars()
IntervalFires ==
  /\ home.interval
  /\ Len(home.syncs) < MaxSyncs
  /\ home' = StartSync(home)
  /\ ServiceUnchanged

\* the connections getAllCalendarEvents sends a request for
Fetchable(m) == {id \in MapIds(m) : MapGet(m, id).provider \in {"google", "microsoft"}}

\* h without its k-th sync, whose events are now shown
SyncDone(h, k) ==
  [h EXCEPT !.calendarEvents = h.syncs[k].date,
            !.syncs = SubSeq(@, 1, k - 1) \o SubSeq(@, k + 1, Len(@))]

(* The initialize() of a sync has resolved and getAllCalendarEvents is     *)
(* called: with nothing to fetch it returns at once and setCalendarEvents  *)
(* runs, otherwise the requests are on their way.                          *)
SyncInitialized(k) ==
  /\ k \in DOMAIN home.syncs
  /\ home.syncs[k].pc = "initialize"
  /\ isInitialized
  /\ home' = IF Fetchable(connections) = {} THEN SyncDone(home, k)
             ELSE [home EXCEPT !.syncs[k].pc = "fetch"]
  /\ ServiceUnchanged

RECURSIVE MapDeleteAll(_, _)
\* this.connections.delete(id) for every id of ids
MapDeleteAll(m, ids) ==
  IF ids = {} THEN m
  ELSE LET id == CHOOSE x \in ids : TRUE IN
       MapDeleteAll(MapDelete(m, id), ids \ {id})

(* The requests of a getAllCalendarEvents call have settled: every         *)
(* connection whose fetcher found 401 in its error was removed from the    *)
(* table and its store removal is on its way.                              *)
FetchesSettle ==
  \E rs \in [Fetchable(connections) -> {r \in Responses : ~r.hasItems}] :
    LET ev == {id \in Fetchable(connections) :
                 fetchCalendarEvents(MapGet(connections, id), rs[id]).evict} IN
    /\ connections' = MapDeleteAll(connections, ev)
    /\ listed' = Unalias(listed, ev)
    /\ removals' = removals \cup ev

\* getAllCalendarEvents of a sync has returned: setCalendarEvents
SyncCompletes(k) ==
  /\ k \in DOMAIN home.syncs
  /\ home.syncs[k].pc = "fetch"
  /\ FetchesSettle
  /\ home' = SyncDone(home, k)
  /\ UNCHANGED <<isInitialized, store, now, tauri, redirectPending,
                 init, cp, tok, rem, agg, ops, page, paste, hist>>

syncCalendars ==
  \/ IntervalFires
  \/ \E k \in 1..MaxSyncs : SyncInitialized(k)
  \/ \E k \in 1..MaxSyncs : SyncCompletes(k)

(* ---- the priorities of the page ---------------------------------------- *)
(* A text is a sequence of characters.                                      *)

\* what the user can type into a priority field, one character at a time
Keys == {"a", "&", "<"}

RECURSIVE ReplaceAll(_, _, _)
\* input.replace(/ch/g, by)
ReplaceAll(text, ch, by) ==
  IF text = << >> THEN << >>
  ELSE (IF Head(text) = ch THEN by ELSE <<Head(text)>>)
       \o ReplaceAll(Tail(text), ch, by)

\* sanitizeHtml: the six replacements in the order of the code
sanitizeHtml(input) ==
  ReplaceAll(
    ReplaceAll(
      ReplaceAll(
        ReplaceAll(
          ReplaceAll(
            ReplaceAll(input, "&", <<"&", "a", "m", "p", ";">>),
            "<", <<"&", "l", "t", ";">>),
          ">", <<"&", "g", "t", ";">>),
        "\"", <<"&", "q", "u", "o", "t", ";">>),
      "'", <<"&", "#", "x", "2", "7", ";">>),
    "/", <<"&", "#", "x", "2", "F", ";">>)

validatePriority(content) ==
  IF Len(content) > PriorityLimit
  THEN [isValid |-> FALSE, sanitized |-> << >>]
  ELSE [isValid |-> TRUE, sanitized |-> sanitizeHtml(content)]

\* no timer is set for a priority
NoTimer == [set |-> FALSE, date |-> "none", priorities |-> << >>]

(* handlePriorityInput(index, value) for a keystroke in the field of       *)
(* priority index: the field shows priorities[index], so value is that     *)
(* text with the typed character behind it.  The timer it sets calls the   *)
(* savePriorities of this render, which holds the currentDate and the      *)
(* priorities of this render.                                              *)
handlePriorityInput(index, key) ==
  /\ hist.keys < MaxKeys
  /\ LET value == Append(home.priorities[index], key)
         validation == validatePriority(value) IN
       IF ~validation.isValid
       THEN /\ home' = home
            /\ hist' = [hist EXCEPT !.keys = @ + 1]
       ELSE LET newPriorities == [home.priorities EXCEPT ![index] = validation.sanitized] IN
            /\ home' = [home EXCEPT
                          !.priorities = newPriorities,
                          !.priorityTimers[index] =
                             [set |-> TRUE, date |-> home.currentDate,
                              priorities |-> home.priorities]]
            /\ hist' = [hist EXCEPT
                          !.keys = @ + 1,
                          !.edits = @ + 1,
                          !.typed[index] = Append(@, key),
                          !.afterEdit[index] = newPriorities,
                          !.cancelled = @ + (IF home.priorityTimers[index].set
                                             THEN 1 ELSE 0)]
  /\ UNCHANGED <<connections, isInitialized, store, now, tauri, redirectPending,
                 init, cp, tok, rem, removals, agg, ops, page, listed, paste>>

\* the 500 ms timer of priority index fires: savePriorities()
PriorityTimerFires(index) ==
  /\ home.priorityTimers[index].set
  /\ home' = [home EXCEPT
                !.priorityTimers[index] = NoTimer,
                !.localStorage[home.priorityTimers[index].date] =
                   home.priorityTimers[index].priorities]
  /\ hist' = [hist EXCEPT !.saves = @ + 1]
  /\ UNCHANGED <<connections, isInitialized, store, now, tauri, redirectPending,
                 init, cp, tok, rem, removals, agg, ops, page, listed, paste>>

editPriorities ==
  \/ \E index \in 1..NumPriorities, key \in Keys : handlePriorityInput(index, key)
  \/ \E index \in 1..NumPriorities : PriorityTimerFires(index)

(* ---- the page around the selected day ---------------------------------- *)

\* the effects on canvasItems and saveCanvasData, run after a render in
\* which canvasItems, currentDate or hasEverHadContent changed: content
\* is tracked, and the 1 s timer is cleared and set again for a
\* saveCanvasData that holds the values of this render
CanvasEffects(h) ==
  LET hasContent == \E item \in h.canvasItems : item.content # ""
      had == h.hasEverHadContent \/ hasContent IN
  [h EXCEPT !.hasEverHadContent = had,
            !.canvasTimer = [set |-> TRUE, date |-> h.currentDate,
                             items |-> h.canvasItems, had |-> had]]

\* the canvasData.items saveCanvasData builds: text without content is left out
SavedItems(items) == {item \in items : item.content # ""}

\* the 1 s timer fires: saveCanvasData() of the render that set it
CanvasTimerFires ==
  /\ home.canvasTimer.set
  /\ home' = [home EXCEPT !.canvasTimer.set = FALSE]
  /\ LET t == home.canvasTimer IN
       IF SavedItems(t.items) = {} /\ ~t.had THEN hist' = hist
       ELSE hist' = [hist EXCEPT !.canvasSaves =
                       @ \cup {[date |-> t.date, items |-> SavedItems(t.items)]}]
  /\ UNCHANGED <<connections, isInitialized, store, now, tauri, redirectPending,
                 init, cp, tok, rem, removals, agg, ops, page, listed, paste>>

\* handleCanvasClick: a new text item without content
handleCanvasClick ==
  /\ hist.items < MaxItems
  /\ home' = CanvasEffects(
               [home EXCEPT !.canvasItems =
                  @ \cup {[origin |-> home.currentDate, n |-> hist.items + 1,
                           content |-> ""]}])
  /\ hist' = [hist EXCEPT !.items = @ + 1]
  /\ UNCHANGED <<connections, isInitialized, store, now, tauri, redirectPending,
                 init, cp, tok, rem, removals, agg, ops, page, listed, paste>>

\* updateTextContent(itemId, content): the user has written into an item
updateTextContent(item) ==
  /\ item \in home.canvasItems
  /\ item.content = ""
  /\ home' = CanvasEffects(
               [home EXCEPT !.canvasItems =
                  (@ \ {item}) \cup {[item EXCEPT !.content = "note"]}])
  /\ UNCHANGED <<connections, isInitialized, store, now, tauri, redirectPending,
                 init, cp, tok, rem, removals, agg, ops, page, listed, paste, hist>>

(* navigateDate / goToToday / the date input: setCurrentDate(d).  After    *)
(* the render loadDayData() is called for d, the auto-save timer is set    *)
(* again, and the calendar effects run for the new syncCalendars.          *)
navigateDate(d) ==
  /\ d # home.currentDate
  /\ hist.navs < MaxNavs
  /\ Len(home.syncs) < MaxSyncs
  /\ home' = CalendarEffects(CanvasEffects(
               [home EXCEPT !.currentDate = d,
                            !.loads = Append(@, [date |-> d, pc |-> "blocks"])]))
  /\ hist' = [hist EXCEPT !.navs = @ + 1]
  /\ UNCHANGED <<connections, isInitialized, store, now, tauri, redirectPending,
                 init, cp, tok, rem, removals, agg, ops, page, listed, paste>>

\* h without its k-th loadDayData call
LoadDone(h, k) ==
  [h EXCEPT !.loads = SubSeq(@, 1, k - 1) \o SubSeq(@, k + 1, Len(@))]

\* get_time_blocks of a load has settled: setTimeBlocks, or the catch of
\* loadDayData when it was rejected
LoadBlocks(k) ==
  /\ k \in DOMAIN home.loads
  /\ home.loads[k].pc = "blocks"
  /\ \E ok \in BOOLEAN :
       IF ok
       THEN /\ home' = [home EXCEPT !.timeBlocks = home.loads[k].date,
                                    !.loads[k].pc = "events"]
            /\ hist' = hist
       ELSE /\ home' = LoadDone(home, k)
            /\ hist' = [hist EXCEPT !.loadFailed = TRUE]
  /\ UNCHANGED <<connections, isInitialized, store, now, tauri, redirectPending,
                 init, cp, tok, rem, removals, agg, ops, page, listed, paste>>

\* getAllCalendarEvents of a load has returned: setCalendarEvents
LoadEvents(k) ==
  /\ k \in DOMAIN home.loads
  /\ home.loads[k].pc = "events"
  /\ FetchesSettle
  /\ home' = [home EXCEPT !.calendarEvents = home.loads[k].date,
                          !.loads[k].pc = "dump"]
  /\ UNCHANGED <<isInitialized, store, now, tauri, redirectPending,
                 init, cp, tok, rem, agg, ops, page, paste, hist>>

\* what get_brain_dump can answer for a date: nothing, or a canvas with
\* one note written on that date
DumpAnswers(d) == {{}, {[origin |-> d, n |-> 0, content |-> "note"]}}

\* JSON.parse(localStorage.getItem(`priorities_${d}`)) or the empty list
PrioritiesOf(h, d) ==
  IF h.localStorage[d] = "none" THEN [index \in 1..NumPriorities |-> << >>]
  ELSE h.localStorage[d]

(* get_brain_dump of a load has answered: setCanvasItems,                  *)
(* setHasEverHadContent and setPriorities, and the load is over.           *)
LoadDump(k) ==
  /\ k \in DOMAIN home.loads
  /\ home.loads[k].pc = "dump"
  /\ \E items \in DumpAnswers(home.loads[k].date) :
       home' = CanvasEffects(LoadDone(
                 [home EXCEPT !.canvasItems = items,
                              !.hasEverHadContent = items # {},
                              !.priorities = PrioritiesOf(home, home.loads[k].date)],
                 k))
  /\ hist' = [hist EXCEPT !.prioritiesOf = home.loads[k].date]
  /\ UNCHANGED <<connections, isInitialized, store, now, tauri, redirectPending,
                 init, cp, tok, rem, removals, agg, ops, page, listed, paste>>

loadDayData ==
  \E k \in 1..(MaxNavs + 1) : LoadBlocks(k) \/ LoadEvents(k) \/ LoadDump(k)

editCanvas ==
  \/ handleCanvasClick
  \/ \E item \in home.canvasItems : updateTextContent(item)
  \/ CanvasTimerFires

Next ==
  \/ Tick
  \/ \E i \in InitIds : initialize(i)
  \/ connectProvider
  \/ processAuthToken
  \/ removeConnection
  \/ getAllCalendarEvents

Spec == Init /\ [][Next]_vars

\* the initialize() calls of the module import and of the page on their own
NextInit == Tick \/ \E i \in InitIds : initialize(i)

SpecInit == Init /\ [][NextInit]_vars

\* initialize() when no redirect sign-in is pending: processAuthResult is
\* not entered
initializeNoRedirect(i) ==
  \/ InitStart(i) \/ InitRedirect(i) \/ InitLoadRead(i) \/ InitLoadApply(i)

\* connecting and disconnecting accounts around the page's initialize(),
\* with no redirect sign-in pending and at most one connection saved earlier
InitConn == Init /\ redirectPending = NoRes /\ Len(store) <= 1

NextConn ==
  \/ initializeNoRedirect("page")
  \/ connectProvider
  \/ processAuthToken
  \/ removeConnection

SpecConn == InitConn /\ [][NextConn]_vars

\* aggregation over the connections loaded and pasted, in the browser and
\* with no redirect sign-in pending
InitAgg == Init /\ ~tauri /\ redirectPending = NoRes

NextAgg ==
  \/ initializeNoRedirect("page")
  \/ processAuthToken
  \/ \E id \in removals : RemBackend(id)
  \/ getAllCalendarEvents

SpecAgg == InitAgg /\ [][NextAgg]_vars

\* connectProvider on its own after the page's initialize(), the history
\* keeping the table and the store of the moment each call starts
NextCp ==
  \/ initializeNoRedirect("page")
  \/ \E p \in ProviderIds : CpStart(p) /\ hist' = [hist EXCEPT !.cpBefore = CpBefore]
  \/ CpSteps

SpecCp == InitConn /\ [][NextCp]_vars

(* The page's connect flow: connectCalendarProvider, then submitAuthToken  *)
(* with the pasted token, in the browser and in the Tauri shell.  The      *)
(* promise of open(authUrl) settles, so a call waiting for it goes on.     *)
NextPage ==
  \/ initializeNoRedirect("page")
  \/ connectProvider
  \/ submitAuthToken
  \/ TokSave

SpecPage == InitConn /\ [][NextPage]_vars /\ WF_vars(CpOpen)

\* the redirect fallback: connectProvider, the reload after the redirect,
\* and the initialize() calls of the reloaded page
InitRedir == Init /\ redirectPending = NoRes /\ Len(store) <= 1

NextRedir ==
  \/ \E i \in InitIds : initialize(i)
  \/ connectProvider
  \/ PageReloads

SpecRedir == InitRedir /\ [][NextRedir]_vars

\* a caller of getConnections() changing what it was given, while accounts
\* are loaded and removed
InitSnap == Init /\ ~tauri /\ redirectPending = NoRes

NextSnap ==
  \/ initializeNoRedirect("page")
  \/ callerOfGetConnections
  \/ removeConnection

SpecSnap == InitSnap /\ [][NextSnap]_vars

\* the page disconnecting accounts after its initialize()
InitRem == Init /\ ~tauri /\ redirectPending = NoRes

NextRem ==
  \/ initializeNoRedirect("page")
  \/ disconnectCalendar

SpecRem == InitRem /\ [][NextRem]_vars

\* a token issued by the auth page and pasted into a service that holds no
\* connection yet
InitToken == Init /\ store = << >> /\ redirectPending = NoRes /\ tauri

NextToken ==
  \/ Tick
  \/ pasteAuthToken

SpecToken == InitToken /\ [][NextToken]_vars

\* the page polling a service whose store holds connections
InitPoll == Init /\ ~tauri /\ redirectPending = NoRes /\ Len(store) >= 1

NextPoll ==
  \/ initializeNoRedirect("page")
  \/ loadCalendarConnections
  \/ syncCalendars
  \/ \E id \in removals : RemBackend(id)

SpecPoll == InitPoll /\ [][NextPoll]_vars

\* the user edits the priorities of the selected day
InitPrio == Init /\ store = << >> /\ redirectPending = NoRes /\ tauri

NextPrio == editPriorities

SpecPrio == InitPrio /\ [][NextPrio]_vars

\* the user changes the selected date and writes on the canvas while the
\* day's data loads; the service holds no connection
InitDay == Init /\ store = << >> /\ redirectPending = NoRes /\ tauri

NextDay ==
  \/ \E d \in Dates : navigateDate(d)
  \/ loadDayData
  \/ editCanvas

SpecDay == InitDay /\ [][NextDay]_vars

(* ================================ claims ================================ *)
Range(seq) == {seq[i] : i \in DOMAIN seq}

\* a call that is at the await of saveConnectionToBackend after this step
ReachesSave(call, callNext) == callNext.pc = "save" /\ call.pc # "save"

(* C1: a connectProvider call that returns hands back a connection whose   *)
(* id, provider, email, accessToken, expiresAt and connectedAt are all set *)
(* (email is a string, the empty one when the account has none), whose      *)
(* accessToken is non-empty and is the credential's access token or, when   *)
(* that is missing, the identity token, and whose record is in the store    *)
(* at the moment of the return.                                             *)
C1_Populated(c, result) ==
  /\ c.id # << >>
  /\ c.provider \in SupportedProviders
  /\ c.email \notin {NULL, UNDEFINED}
  /\ c.accessToken \notin {"", NULL, UNDEFINED, THROWS}
  /\ c.accessToken = IF result.credToken # "" THEN result.credToken ELSE result.idToken
  /\ c.expiresAt > 0
  /\ c.connectedAt > 0

C1_ConnectReturnsPersisted ==
  [][(cp'.out = "returned" /\ cp.pc # "done")
       => /\ C1_Populated(cp'.ret, cp.res)
          /\ ToRecord(cp'.ret) \in Range(store')]_vars

C1_Witness == cp.out = "returned" /\ cp.ret.accessToken = "idt"

(* C2: an account (provider, user id) is always given the same connection  *)
(* id; the table and the store never hold two connections of one account;  *)
(* and authenticating an account whose connection is in the table (store)  *)
(* overwrites it: the number of entries stays the same.                    *)
C2_Deterministic ==
  \A a, b \in hist.assigned : (a[1] = b[1] /\ a[2] = b[2]) => a[3] = b[3]

C2_OnePerAccount(seq) ==
  /\ \A i, j \in DOMAIN seq : seq[i].id = seq[j].id => i = j
  /\ \A a \in hist.assigned :
       Cardinality({i \in DOMAIN seq : <<a[1], a[2], seq[i].id>> \in hist.assigned}) <= 1

C2_Connected(h, acct, ids) ==
  \E a \in h.assigned : a[1] = acct[1] /\ a[2] = acct[2] /\ a[3] \in ids

C2_ReauthOverwrites ==
  /\ (ReachesSave(cp, cp') \/ ReachesSave(tok, tok')
         \/ \E i \in InitIds : ReachesSave(init[i], init'[i]))
       => (C2_Connected(hist, hist'.lastAuth, MapIds(connections))
             => Len(connections') = Len(connections))
  /\ \A r \in Range(store') \ Range(store) :
       r.id \in StoreIds(store) => Len(store') = Len(store)

C2_OneConnectionPerAccount ==
  /\ [](C2_Deterministic /\ C2_OnePerAccount(connections) /\ C2_OnePerAccount(store))
  /\ [][C2_ReauthOverwrites]_vars

C2_Witness ==
  /\ cp.out = "returned" /\ tok.out = "returned"
  /\ cp.ret.id = tok.ret.id
  /\ Len(connections) = 1 /\ Len(store) = 1

(* C3: processAuthToken raises the invalid-token error for a token that is *)
(* not base64, is not JSON, or names another provider than the one asked   *)
(* for, and such a call changes neither the table nor the store.           *)
C3_InvalidTokenRejected ==
  [][(ops'.tok # ops.tok /\ tok'.kind # "valid")
       => /\ tok'.pc = "done" /\ tok'.out = "raised" /\ tok'.err = InvalidToken
          /\ connections' = connections
          /\ store' = store]_vars

C3_Witness ==
  /\ tok.out = "raised" /\ tok.kind = "mismatch" /\ tok.providerId = "google"
  /\ Len(connections) > 0

(* C4: when a connection's request is answered with 401 (the refresh gives *)
(* no new token), its fetcher returns the empty list without raising, the  *)
(* connection is out of the table when the fetcher has returned, and the   *)
(* provider was asked at most once more after the 401.                     *)
LastFetch(h) == h.log[Len(h.log)]

FetchCompletes == Len(hist'.log) = Len(hist.log) + 1

C4_UnauthorizedEvicts ==
  [][(FetchCompletes /\ LastFetch(hist').status = 401)
       => /\ LastFetch(hist').k = "return"
          /\ LastFetch(hist').events = << >>
          /\ LastFetch(hist').id \notin MapIds(getConnections(connections'))
          /\ LastFetch(hist').requests <= 2]_vars

C4_Witness ==
  /\ agg.pc = "fetch"
  /\ \E k \in DOMAIN hist.log : hist.log[k].status = 401
  /\ Len(connections) > 0

(* C5: getAllCalendarEvents returns, it never raises; every event a        *)
(* fetcher returned during the call is in the result; and every google or  *)
(* microsoft connection that is in the table when the call returns has     *)
(* been fetched during the call, whatever failed or was evicted before it. *)
AggCompletes == agg'.pc = "done" /\ agg.pc # "done"

C5_Fetched(h, a) == {h.log[k].id : k \in DOMAIN h.log} \cup a.thrown

C5_FailuresContained ==
  [][AggCompletes
       => /\ agg'.out = "returned"
          /\ \A k \in DOMAIN hist'.log :
               Range(hist'.log[k].events) \subseteq Range(agg'.ret)
          /\ \A c \in Range(connections') :
               c.provider \in SupportedProviders => c.id \in C5_Fetched(hist', agg')]_vars

C5_Witness ==
  /\ agg.out = "returned"
  /\ agg.thrown # {}
  /\ \E j, k \in DOMAIN hist.log :
       /\ j < k
       /\ hist.log[j].evict
       /\ hist.log[k].events # << >>

(* C6: the result of getAllCalendarEvents is the events the fetchers       *)
(* returned, each once, in ascending order of start, events of equal start *)
(* in the order in which they were fetched.                                *)
RECURSIVE FetchedEvents(_)
FetchedEvents(log) ==
  IF log = << >> THEN << >>
  ELSE FetchedEvents(SubSeq(log, 1, Len(log) - 1)) \o log[Len(log)].events

StartsAt(events, start) == SelectSeq(events, LAMBDA e : e.start = start)

C6_SortedMerge ==
  agg.out = "returned"
    => LET all == FetchedEvents(hist.log) IN
       /\ Len(agg.ret) = Len(all)
       /\ \A k \in 1..(Len(agg.ret) - 1) : agg.ret[k].start <= agg.ret[k + 1].start
       /\ \A e \in Range(all) \cup Range(agg.ret) :
            StartsAt(agg.ret, e.start) = StartsAt(all, e.start)

C6_Witness ==
  /\ agg.out = "returned"
  /\ Len(hist.log) >= 2
  /\ hist.log[1].events = Normalize(<<Item("a", 2), Item("b", 1)>>, "google")
  /\ hist.log[2].events = Normalize(<<Item("a", 1)>>, "microsoft")
  /\ Len(agg.ret) >= 3

(* C7: overlapping initialize() calls are served by one initialization:    *)
(* the store is read and the table rebuilt once, not once per caller; and  *)
(* a call made after an initialization has completed returns at once and   *)
(* leaves the table as it is.                                              *)
C7_LaterCallsDoNothing ==
  \A i \in InitIds :
    (isInitialized /\ ops'.init # ops.init /\ init'[i] # init[i])
      => /\ init'[i].pc = "done" /\ init'[i].early
         /\ connections' = connections
         /\ store' = store

C7_SingleInitialization ==
  /\ [](hist.storeLoads <= 1)
  /\ [][C7_LaterCallsDoNothing]_vars

(* C8: initialize() never raises.  When getRedirectResult, the processing  *)
(* of its result, or the read of the store fails, the call still returns,  *)
(* and getConnections() has a list to return.                              *)
C8_InitializeNeverRaises ==
  /\ \A i \in InitIds :
       /\ init[i].out # "raised"
       /\ init[i].pc = "done" => init[i].out = "returned"
  /\ Len(getConnections(connections)) >= 0

C8_Witness ==
  \E i \in InitIds : init[i].pc = "done" /\ init[i].caught = {"redirect", "load"}

(* C9: after a load that failed, the next initialize() call reads the      *)
(* store again: no initialize() call returns without reading the store     *)
(* while no load has succeeded yet.                                        *)
C9_FailedLoadRetried ==
  \A i \in InitIds : (init[i].pc = "done" /\ init[i].early) => hist.everLoaded

(* C10: over all initialize() calls of one process, getRedirectResult is   *)
(* called once, and a redirect result is made into a connection at most    *)
(* once.                                                                   *)
C10_RedirectCheckedOnce == hist.redirectChecks <= 1 /\ hist.finalized <= 1

(* C11: removeConnection(id) takes the connection out of the table at     *)
(* once and, when the store has carried out the removal, out of the store;  *)
(* it returns without raising also for an id that is not in the table or    *)
(* was removed before, and it changes no other connection and no other      *)
(* record.                                                                  *)
C11_Others(seq, id) == SelectSeq(seq, LAMBDA c : c.id # id)

C11_RemoveStarts ==
  (ops'.rem # ops.rem)
    => /\ rem'.id \notin MapIds(getConnections(connections'))
       /\ connections' = C11_Others(connections, rem'.id)
       /\ (rem'.id \notin MapIds(connections) => connections' = connections)
       /\ store' = store

C11_RemoveCompletes ==
  (rem.pc = "backend" /\ rem'.pc = "done")
    => /\ rem'.out = "returned"
       /\ connections' = connections
       /\ (rem'.invoked = "resolved" => rem.id \notin StoreIds(store'))
       /\ C11_Others(store', rem.id) = C11_Others(store, rem.id)
       /\ (rem.id \notin StoreIds(store) => store' = store)

C12_CallerActs == ops'.write # ops.write

C12_SnapshotIsolated ==
  [][C12_CallerActs
       => /\ connections' = connections
          /\ getConnections(connections') = getConnections(connections)]_vars

(* C13: a connectProvider call that ends by raising leaves the table and   *)
(* the store as they were when it started (no other call of the service    *)
(* ran in between); and for an unsupported provider id it raises at once,   *)
(* before a popup, a redirect or the external browser is started.           *)
C13_Undisturbed ==
  hist.cpBefore.alone /\ OtherOps(ops) = hist.cpBefore.ops

C13_FailedConnectLeavesNoTrace ==
  /\ (cp.pc = "done" /\ cp.out = "raised" /\ C13_Undisturbed)
       => /\ connections = hist.cpBefore.connections
          /\ store = hist.cpBefore.store
  /\ (cp.providerId \notin SupportedProviders \cup {NULL})
       => cp.pc = "done" /\ cp.out = "raised"

(* C14: in the Tauri shell connectProvider(p) for a supported p never      *)
(* starts the popup (nor anything after it), it ends, and it ends raising   *)
(* AUTH_TOKEN_NEEDED with p, whether open(authUrl) resolved or rejected;    *)
(* the page then has p as its pending provider and the token dialog open,   *)
(* and the processAuthToken call the page makes is made with the pending    *)
(* provider, which only such a signal sets and only a successful paste      *)
(* clears.                                                                  *)
C14_TokenNeeded(call) ==
  call.pc = "done" /\ call.out = "raised"
    /\ call.err = Err("", "AUTH_TOKEN_NEEDED:", call.providerId)

C14_NoPopupInShell ==
  tauri => /\ cp.pc \in {"idle", "open", "done"}
           /\ (cp.pc = "done" /\ cp.providerId \in SupportedProviders)
                 => C14_TokenNeeded(cp)

C14_PagePending ==
  /\ (tauri /\ cp'.pc = "done" /\ cp.pc # "done"
         /\ cp.providerId \in SupportedProviders)
       => /\ page'.pendingProvider = cp.providerId
          /\ page'.showTokenInput /\ page'.prompt = "token"
  /\ (ops'.tok # ops.tok) => tok'.providerId = page.pendingProvider
  /\ (page'.pendingProvider # page.pendingProvider)
       => \/ C14_TokenNeeded(cp') /\ cp.pc # "done"
             /\ page'.pendingProvider = cp.providerId
          \/ tok'.out = "returned" /\ tok.pc # "done"
             /\ page'.pendingProvider = ""

C14_ManualTokenInShell ==
  /\ []C14_NoPopupInShell
  /\ [][C14_PagePending]_vars
  /\ \A p \in SupportedProviders :
       (tauri /\ cp.pc = "open" /\ cp.providerId = p) ~> (C14_TokenNeeded(cp) /\ cp.providerId = p)

C14_Witness ==
  /\ tauri /\ C14_TokenNeeded(cp) /\ cp.providerId = "microsoft"
  /\ tok.out = "returned" /\ tok.ret.provider = "microsoft"
  /\ page.prompt = "connected"

(* C15: a popup that is blocked or closed never surfaces as such: the call *)
(* goes on to signInWithRedirect and, once the redirect has started, ends   *)
(* raising the redirect-initiated signal, with the table and the store as   *)
(* they were; and an initialize() call that got the redirect result and     *)
(* made a connection of it has that connection in getConnections() and in   *)
(* the store at the moment it completes.                                    *)
C15_FallsBack ==
  /\ (cp.pc = "popup" /\ cp'.pc = "done" /\ cp'.out = "raised")
       => cp'.err.code \notin {"auth/popup-blocked", "auth/popup-closed-by-user"}
  /\ (cp.pc = "redirecting" /\ cp'.pc = "done")
       => /\ cp'.out = "raised"
          /\ cp'.err.code = "" => cp'.err = RedirectInitiated
          /\ connections' = connections
          /\ store' = store

C15_Completed ==
  \A i \in InitIds :
    (init'[i].pc = "done" /\ init[i].pc # "done" /\ init'[i].fin # << >>)
      => /\ init'[i].fin \in MapIds(getConnections(connections'))
         /\ init'[i].fin \in StoreIds(store')

C15_RedirectCompletesOnInitialize == [][C15_FallsBack /\ C15_Completed]_vars

(* C16: the error a failed connect hands to its caller tells which kind of *)
(* failure it was, and the page answers the manual-token-required kind     *)
(* with the token dialog and the redirect-pending kind with a prompt of    *)
(* its own, neither of them with the alert for a failed connect.           *)
C16_Kind(e) ==
  CASE StartsWithTokenNeeded(e) -> "manual-token-required"
    [] e = RedirectInitiated -> "redirect-pending"
    [] e.code = "auth/popup-blocked" -> "popup-blocked"
    [] e.code \in {"auth/popup-closed-by-user", "auth/cancelled-popup-request"}
         -> "user-cancelled"
    [] e.msg = "Failed to get access token from authentication result"
         -> "token-extraction-failed"
    [] OTHER -> "provider-error"

C16_ConnectFails == cp'.pc = "done" /\ cp.pc # "done" /\ cp'.out = "raised"

C16_DistinctKinds ==
  [][C16_ConnectFails
       => /\ (C16_Kind(cp'.err) = "manual-token-required") <=> (page'.prompt = "token")
          /\ (C16_Kind(cp'.err) = "redirect-pending") => page'.prompt = "browser"
          /\ (page'.prompt = "failed")
               => C16_Kind(cp'.err) \in {"user-cancelled", "token-extraction-failed",
                                         "provider-error"}]_vars

(* C17: when a connection's request is answered with a status that is     *)
(* neither 2xx nor 401, its fetcher raises (the error naming the status and *)
(* the body), the connection stays in the table, and getAllCalendarEvents   *)
(* does not raise.                                                          *)
C17_OtherStatus(entry) == entry.status \notin {0, 200, 401}

C17_OtherErrorsRaised ==
  [][(FetchCompletes /\ C17_OtherStatus(LastFetch(hist')))
       => /\ LastFetch(hist').k = "throw"
          /\ ~LastFetch(hist').evict
          /\ LastFetch(hist').id \in MapIds(getConnections(connections'))
          /\ agg'.out # "raised"]_vars

(* C18: refreshToken answers null for every connection, with or without a *)
(* refresh token, of either provider; fetching events changes no record of  *)
(* the table and nothing in the store; and the request for a connection is  *)
(* sent with the connection as the table holds it, also when its expiresAt  *)
(* has passed.                                                              *)
\* a step of getAllCalendarEvents: its start, or one fetch completing
C18_Fetching == ops'.agg # ops.agg \/ FetchCompletes

C18_Step ==
  C18_Fetching
    => /\ Range(connections') \subseteq Range(connections)
       /\ store' = store
       /\ agg'.pc = "fetch"
            => /\ agg'.cur \in Range(connections')
               /\ agg'.requests = 1

C18_RefreshUnavailable ==
  /\ [](\A c \in Range(connections) : refreshToken(c) = NoConn)
  /\ [][C18_Step]_vars

C18_Witness ==
  /\ agg.out = "returned" /\ Len(agg.ret) > 0
  /\ \E k \in DOMAIN hist.log, c \in Range(connections) :
       /\ hist.log[k].id = c.id /\ hist.log[k].events # << >>
       /\ c.refreshToken = "rt" /\ c.expiresAt < now


(* C19: a token the auth page issued for provider p, pasted with or        *)
(* without blanks around it, decodes to the provider, email and            *)
(* accessToken of the payload it was made from; processAuthToken(p, token) *)
(* builds the connection with id p-uid, that email and that accessToken,   *)
(* and returns exactly that connection when it returns.                    *)
C19_Same(c) ==
  /\ c.id = ConnId(paste.payload.provider, paste.payload.uid)
  /\ c.provider = paste.payload.provider
  /\ c.email = paste.payload.email
  /\ c.accessToken = paste.payload.accessToken

C19_Decodes ==
  paste.stage \in {"shown", "pasted", "submitted"} =>
    LET authData == ParseToken(paste.token) IN
    /\ authData.kind = "object"
    /\ Member(authData.obj, "provider") = paste.payload.provider
    /\ Member(authData.obj, "email") = paste.payload.email
    /\ Member(authData.obj, "accessToken") = paste.payload.accessToken

C19_Step ==
  /\ (paste.stage = "pasted" /\ paste'.stage = "submitted"
        /\ tok'.providerId = paste.payload.provider)
       => (tok'.pc = "save" /\ C19_Same(tok'.conn)
           /\ MapHas(connections', tok'.conn.id)
           /\ C19_Same(MapGet(connections', tok'.conn.id)))
  /\ (paste.stage = "submitted" /\ tok.pc = "save" /\ tok'.pc = "done"
        /\ tok'.out = "returned")
       => (C19_Same(tok'.ret) /\ tok.providerId = paste.payload.provider)

C19_TokenRoundTrip == [](C19_Decodes) /\ [][C19_Step]_vars

C19_Witness ==
  /\ paste.stage = "submitted"
  /\ Head(paste.token) = 65
  /\ paste.token[Len(paste.token)] = 65
  /\ paste.payload.email = "q\"\\@x"
  /\ tok.pc = "done"
  /\ tok.out = "returned"
  /\ tok.ret.email = "q\"\\@x"
  /\ tok.ret.id = ConnId(paste.payload.provider, paste.payload.uid)

(* C20: once the store has been loaded and every connect, manual-token,    *)
(* disconnect, eviction and initialize call has completed, the connection  *)
(* table and the credential store hold the same set of connection ids.     *)
C20_AllCompleted ==
  /\ AtRest
  /\ cp.pc \in {"idle", "done"}
  /\ init["page"].pc = "done"
  /\ hist.everLoaded

C20_MemoryMirrorsStore ==
  C20_AllCompleted => MapIds(connections) = StoreIds(store)

(* C21: a connection leaves the table only in a removeConnection call of   *)
(* the caller or when its fetch completed with HTTP 401; a fetch that      *)
(* ended any other way (rejected request, another status, a body that      *)
(* contains the text 401) removes nothing.  The clear() of a reload is     *)
(* left aside here.                                                        *)
C21_Left == MapIds(connections) \ MapIds(connections')

C21_Reloads == \E i \in InitIds : init[i].pc = "apply" /\ init'[i].pc = "done"

C21_Step ==
  /\ (FetchCompletes /\ LastFetch(hist').status # 401) => C21_Left = {}
  /\ \A id \in C21_Left :
       \/ ops'.rem # ops.rem /\ rem'.id = id
       \/ FetchCompletes /\ LastFetch(hist').id = id /\ LastFetch(hist').status = 401
       \/ C21_Reloads

C21_LeavesOnlyOnRemoveOr401 == [][C21_Step]_vars

(* C22: the connectedAt of a connection id that stays in the table never   *)
(* changes: signing the same account in again, through connectProvider or  *)
(* processAuthToken, and reloading from the store keep the value the       *)
(* connection was created with.                                            *)
C22_ConnectedAtImmutable ==
  [][\A id \in MapIds(connections) \cap MapIds(connections') :
       MapGet(connections', id).connectedAt = MapGet(connections, id).connectedAt]_vars

(* C23: at most one getAllCalendarEvents call started by the page's polling *)
(* (the 5 s interval or the initial sync) is in flight at any time.         *)
C23_InFlight == {k \in DOMAIN home.syncs : home.syncs[k].pc = "fetch"}

C23_OneAggregationInFlight == Cardinality(C23_InFlight) <= 1

(* C24: once the page has loaded the connections and no call is in flight, *)
(* the 5 s polling interval is there exactly while the service holds at    *)
(* least one connection; it stops when the last one was disconnected or    *)
(* evicted by a failed fetch.                                              *)
C24_Settled ==
  /\ home.loaded
  /\ home.syncs = << >>
  /\ AtRest

C24_PollsWhileConnected ==
  C24_Settled => (home.interval <=> connections # << >>)

(* C25: once every call has completed, a connection that processAuthToken  *)
(* or connectProvider returned is in the table unless removeConnection was *)
(* called for it, and a connection removeConnection was called for is not  *)
(* in the table unless one of the two returned it: an initialize() that    *)
(* was in flight meanwhile undoes neither.                                 *)
C25_AllCompleted == AtRest /\ cp.pc \in {"idle", "done"}

C25_Removed(id) == rem.pc = "done" /\ rem.id = id

C25_Added(id) ==
  \/ tok.pc = "done" /\ tok.out = "returned" /\ tok.ret.id = id
  \/ cp.pc = "done" /\ cp.out = "returned" /\ cp.ret.id = id

C25_ChangesSurviveReload ==
  C25_AllCompleted =>
    /\ \A id \in {tok.ret.id, cp.ret.id} :
         (C25_Added(id) /\ ~C25_Removed(id)) => MapHas(connections, id)
    /\ (rem.pc = "done" /\ ~C25_Added(rem.id)) => ~MapHas(connections, rem.id)

(* C26: a connection connectProvider(p) returns for a user who signed in   *)
(* with p has provider p and an id that starts with p, whatever the order  *)
(* of the user's provider data.                                            *)
C26_SignedInWith(uid, p) ==
  \E u \in Users :
    /\ u.uid = uid
    /\ \E k \in DOMAIN u.providerData :
         \/ p = "google" /\ u.providerData[k] = "google.com"
         \/ p = "microsoft" /\ u.providerData[k] = "microsoft.com"

C26_RequestedProviderRecorded ==
  (cp.pc = "done" /\ cp.out = "returned"
     /\ C26_SignedInWith(cp.ret.id[3], cp.providerId))
    => (cp.ret.provider = cp.providerId /\ cp.ret.id[1] = cp.providerId)

(* C27: when the 500 ms timer a priority edit started fires, the           *)
(* priorities written to local storage under the date of the edit are the  *)
(* priorities as they were after that edit; and an edit of a priority      *)
(* whose timer is still pending replaces that timer, so the edits of one   *)
(* priority lead to one save.                                              *)
C27_Fires(index) == home.priorityTimers[index].set /\ ~home'.priorityTimers[index].set

C27_Step ==
  /\ \A index \in 1..NumPriorities :
       C27_Fires(index) =>
         home'.localStorage[home.priorityTimers[index].date] = hist.afterEdit[index]
  /\ hist'.saves + hist'.cancelled
       + Cardinality({index \in 1..NumPriorities : home'.priorityTimers[index].set})
     = hist'.edits

C27_DebouncedSaveIsLatest == [][C27_Step]_vars

(* C30: the text kept for a priority is sanitizeHtml, applied once, of     *)
(* what the user typed into its field.                                     *)
C30_SanitizedOnce ==
  \A index \in 1..NumPriorities :
    home.priorities[index] = sanitizeHtml(hist.typed[index])

(* C28: every brain-dump save writes under date D only canvas items that   *)
(* were loaded for D or created while D was selected, and a change of the  *)
(* selected date does not drop the pending save of items written on the    *)
(* day that is left.                                                       *)
C28_SavesOwnItems ==
  \A s \in hist.canvasSaves : \A item \in s.items : item.origin = s.date

C28_Switch ==
  (home'.currentDate # home.currentDate /\ home.canvasTimer.set
     /\ SavedItems(home.canvasTimer.items) # {})
    => \/ [date |-> home.canvasTimer.date,
           items |-> SavedItems(home.canvasTimer.items)] \in hist'.canvasSaves
       \/ home'.canvasTimer = home.canvasTimer

C28_SavedUnderOwnDate == [](C28_SavesOwnItems) /\ [][C28_Switch]_vars

(* C29: once every loadDayData and syncCalendars call has completed, none  *)
(* of them having failed, the time blocks, calendar events, canvas items   *)
(* and priorities in the state of the page are those of the selected date. *)
C29_AllCompleted == home.loads = << >> /\ home.syncs = << >> /\ ~hist.loadFailed

C29_StateOfSelectedDate ==
  C29_AllCompleted =>
    /\ home.timeBlocks = home.currentDate
    /\ home.calendarEvents = home.currentDate
    /\ \A item \in home.canvasItems : item.origin = home.currentDate
    /\ hist.prioritiesOf = home.currentDate
====
